---- MODULE Spec2Model ----
(***************************************************************************)
(* A model of github.com/caiguanhao/furk, package db:                      *)
(*   - the transaction coordinator, sqlWithValues.execute;                 *)
(*   - the change-set builder, Permit / PermitAllExcept / Filter;          *)
(*   - the statement builder, Insert / Update / Find / Schema;             *)
(*   - model inference, NewModel / parseStruct / ToTableName;              *)
(*   - Changes / Assign / Bind, and Query / scan.                          *)
(* Go maps are iterated in an unspecified order: wherever the code ranges  *)
(* over a map, the model takes every order.                                *)
(***************************************************************************)
EXTENDS Integers, Sequences, FiniteSets, TLC

(***************************************************************************)
(* Bounds of the model.                                                    *)
(***************************************************************************)
\* number of execute() calls made in one behaviour
MaxCalls == 2

\* number of names given to Permit / PermitAllExcept
MaxNames == 2
\* number of keys of one raw input
MaxKeys == 2
\* number of change sets given to Insert / Update
MaxChangeSets == 2
\* number of entries of the change sets of one call, in all
MaxEntries == 3
\* number of arguments after the where clause of Update
MaxWhereArgs == 1
\* most rows in the table
MaxRows == 2
\* most declared members of a record type made from the pool of declarations
MaxDecls == 2

VARIABLES
    \* the model
    object,       \* the record type NewModel was given, as reflect shows it
    structType,   \* name of the record type the Model was made from
    tableName,    \* Model.tableName
    modelFields,  \* Model.modelFields
    jsonbColumns, \* Model.jsonbColumns
    connection,   \* Model.connection: "nil" or "db"
    \* sqlWithValues.execute
    pc,           \* position inside sqlWithValues.execute
    action,       \* actionQueryRow or actionExecute
    txOpts,       \* the *TxOptions argument of the running call
    tx,           \* the handle BeginTx returned (0: none)
    err,          \* the named result err of execute
    panicValue,   \* the value of the panic in flight ("none": no panic, "nil": panic(nil))
    calls,        \* the calls made on the connection, the handle and the hooks
    nCalls,       \* number of execute() calls started
    \* Permit / PermitAllExcept / Filter
    permitKind,         \* "Permit" or "PermitAllExcept": what made the receiver
    permitArgs,         \* the names it was given
    permittedFieldsIdx, \* ModelWithPermittedFields.permittedFieldsIdx
    fpc,                \* position inside Filter: "idle", "loop", "handled", "returned"
    input,              \* the input Filter's loop has just handled
    out,                \* Filter's result, a Changes map
    \* Insert / Update
    lotsOfChanges,      \* the change sets given to Insert or Update
    args,               \* the arguments given to the function it returned
    stmt,               \* the statement made: its text and values, and the
                        \* lists (fields, numbers) the text was joined from
    \* Changes / Assign / Bind
    recOp,              \* the call that has returned: "none", "Changes", "Assign", "Bind"
    raw,                \* what the call was given: RawChanges, change sets, or the binder
    targetRec,          \* the fields of the record behind the target pointer
    prior,              \* the same fields when the call began
    outChanges,         \* the change set, or the change sets, returned
    recErr,             \* the error returned
    \* Query / scan / ExecTx / Count / Exists
    qpc,                \* the call that has returned: "none", "Query", ...
    dest,               \* the destination given, its shape and its content
    filled,             \* what the destination holds when the call has returned
    rows,               \* the rows the driver holds for the statement
    driverCalls,        \* the calls made on the connection by these operations
    qErr                \* the result of the call: "nil", an error, or "panic"

modelVars == <<object, structType, tableName, modelFields, jsonbColumns>>

txVars == <<connection, pc, action, txOpts, tx, err, panicValue, calls, nCalls>>

filterVars == <<permitKind, permitArgs, permittedFieldsIdx, fpc, input, out>>

stmtVars == <<lotsOfChanges, args, stmt>>

recordVars == <<recOp, raw, targetRec, prior, outChanges, recErr>>

queryVars == <<qpc, dest, filled, rows, driverCalls, qErr>>

vars == <<modelVars, txVars, filterVars, stmtVars, recordVars, queryVars>>

(***************************************************************************)
(* Record types (what reflect shows of a struct) and NewModel.             *)
(***************************************************************************)
\* a struct tag value: the text before the first comma, and the rest
Tag(name, options) == [name |-> name, options |-> options]

NoTag == Tag("", "")

\* a declared struct field
StructField(name, type) ==
    [Name |-> name, Type |-> type, Anonymous |-> FALSE, PkgPath |-> "",
     column |-> NoTag, json |-> NoTag, jsonb |-> NoTag, dataType |-> ""]

\* an embedded (anonymous) member of struct type `type`
Embedded(type) ==
    [Name |-> type, Type |-> type, Anonymous |-> TRUE, PkgPath |-> "db",
     column |-> NoTag, json |-> NoTag, jsonb |-> NoTag, dataType |-> ""]

\* the record types of the tests: admin and userAlike (db/model_test.go), and
\* five of the fields of order (db/model_sql_test.go); profile is a record
\* type whose two document columns each hold a sub-key named city, with the
\* unexported field jsonbTest of order, which has a column tag; account is a
\* record type with a field whose json tag is "-"
StructTypes ==
    [userAlike |->
        [TableNameMethod |-> "", TableNameTag |-> "",
         fields |-> << StructField("Id", "int"),
                       StructField("Name", "string"),
                       StructField("Password", "string") >>],
     admin |->
        [TableNameMethod |-> "", TableNameTag |-> "",
         fields |-> << Embedded("userAlike") >>],
     order |->
        [TableNameMethod |-> "", TableNameTag |-> "orders",
         fields |-> << StructField("Status", "string"),
                       [StructField("UserId", "int") EXCEPT !.json = Tag("foobar_user_id", "")],
                       [StructField("FieldInJsonb", "string") EXCEPT !.jsonb = Tag("meta", "")],
                       [StructField("BadType", "int") EXCEPT !.jsonb = Tag("meta", "")],
                       [StructField("Sources2", "map[string]int") EXCEPT !.jsonb = Tag("meta2", "")] >>],
     profile |->
        [TableNameMethod |-> "", TableNameTag |-> "",
         fields |-> << StructField("Id", "int"),
                       [StructField("Home", "string") EXCEPT !.jsonb = Tag("meta", ""),
                                                              !.column = Tag("city", "")],
                       [StructField("Work", "string") EXCEPT !.jsonb = Tag("meta2", ""),
                                                              !.column = Tag("city", "")],
                       [StructField("jsonbTest", "int") EXCEPT !.PkgPath = "db_test",
                                                               !.json = Tag("testjsonb", ""),
                                                               !.column = Tag("JSONBTEST", ""),
                                                               !.jsonb = Tag("meta", "")] >>],
     account |->
        [TableNameMethod |-> "", TableNameTag |-> "",
         fields |-> << StructField("Id", "int"),
                       [StructField("Token", "string") EXCEPT !.json = Tag("-", "")] >>]]

\* camelCaseToUnderscore on the names of the record types above
DefaultColumnizer(in) ==
    CASE in = "Id" -> "id"
      [] in = "Name" -> "name"
      [] in = "Password" -> "password"
      [] in = "Status" -> "status"
      [] in = "UserId" -> "user_id"
      [] in = "FieldInJsonb" -> "field_in_jsonb"
      [] in = "BadType" -> "bad_type"
      [] in = "Sources2" -> "sources2"
      [] in = "userAlike" -> "user_alike"
      [] in = "Home" -> "home"
      [] in = "Work" -> "work"
      [] in = "Token" -> "token"
      [] OTHER -> in

ToColumnName(in) == DefaultColumnizer(in)

\* DefaultPluralizer on the type names above
DefaultPluralizer(in) ==
    CASE in = "user_alike" -> "user_alikes"
      [] in = "admin" -> "admins"
      [] in = "order" -> "orders"
      [] OTHER -> in \o "s"

\* a record type as reflect shows it: its name ("" for an unnamed struct
\* type), what its TableName method returns ("": it has none), the tag of its
\* __TABLE_NAME__ field ("": no such field, or no tag), its declared fields
Object(name, method, tag, fields) ==
    [Name |-> name, TableNameMethod |-> method, TableNameTag |-> tag, fields |-> fields]

\* the record type of that name
TypeNamed(type) ==
    Object(type, StructTypes[type].TableNameMethod, StructTypes[type].TableNameTag,
           StructTypes[type].fields)

\* (mutant) the __TABLE_NAME__ tag first, then TableName()
ToTableName_TagFirst(o) ==
    IF o.TableNameTag # "" THEN o.TableNameTag
    ELSE IF o.TableNameMethod # "" THEN o.TableNameMethod
    ELSE IF ToColumnName(o.Name) = "" THEN "error_no_table_name"
    ELSE DefaultPluralizer(ToColumnName(o.Name))

\* ToTableName: TableName() first, then the __TABLE_NAME__ tag, then the
\* pluralized type name
ToTableName(o) ==
    IF o.TableNameMethod # "" THEN o.TableNameMethod
    ELSE IF o.TableNameTag # "" THEN o.TableNameTag
    ELSE IF ToColumnName(o.Name) = "" THEN "error_no_table_name"
    ELSE DefaultPluralizer(ToColumnName(o.Name))

\* the data type parseStruct infers for a field of Go type tp
InferredDataType(tp, columnName, jsonb) ==
    LET null == tp \in {"*int", "*string"}
        base == CASE tp = "*int" -> "int" [] tp = "*string" -> "string" [] OTHER -> tp
        sql  == CASE base \in {"int8", "int16", "int32", "uint8", "uint16", "uint32"} ->
                        "integer DEFAULT 0"
                  [] base \in {"int64", "uint64", "int", "uint"} -> "bigint DEFAULT 0"
                  [] base = "time.Time" -> "timestamptz DEFAULT NOW()"
                  [] base \in {"float32", "float64"} -> "numeric(10,2) DEFAULT 0.0"
                  [] base = "decimal.Decimal" -> "numeric(10, 2) DEFAULT 0.0"
                  [] base = "bool" -> "boolean DEFAULT false"
                  [] OTHER -> "text DEFAULT ''::text"
    IN IF columnName = "id" /\ base \in {"int", "int8", "int16", "int32", "int64",
                                          "uint", "uint8", "uint16", "uint32", "uint64",
                                          "map[string]int"}
       THEN "SERIAL PRIMARY KEY"
       ELSE IF jsonb = "" THEN (IF null THEN sql ELSE sql \o " NOT NULL")
       ELSE ""

Contains(seq, x) == \E i \in 1..Len(seq) : seq[i] = x

\* the elements of a sequence
Range(seq) == {seq[i] : i \in 1..Len(seq)}

\* the Field parseStruct makes of a declared field (the field is not skipped)
FieldOf(f, columnName, jsonb) ==
    [Name       |-> f.Name,
     Exported   |-> f.PkgPath = "",
     ColumnName |-> columnName,
     JsonName   |-> IF f.json = Tag("-", "") THEN ""
                    ELSE IF f.json.name = "" THEN f.Name ELSE f.json.name,
     Jsonb      |-> jsonb,
     DataType   |-> IF f.dataType # "" THEN f.dataType
                    ELSE InferredDataType(f.Type, columnName, jsonb)]

\* parseStruct: the fields and the jsonb columns of a record type
RECURSIVE parseStruct(_)
RECURSIVE parseFields(_, _, _, _)

parseFields(decls, i, fields, columns) ==
    IF i > Len(decls) THEN [fields |-> fields, jsonbColumns |-> columns]
    ELSE LET f == decls[i]
             columnName == IF f.column.name = "" THEN ToColumnName(f.Name) ELSE f.column.name
             jsonb == ToColumnName(f.jsonb.name)
         IN IF f.Anonymous
            THEN LET sub == parseStruct(f.Type)
                 IN parseFields(decls, i + 1, fields \o sub.fields, columns \o sub.jsonbColumns)
            ELSE IF f.column = Tag("-", "") THEN parseFields(decls, i + 1, fields, columns)
            ELSE IF f.column.name = "" /\ f.PkgPath # "" THEN parseFields(decls, i + 1, fields, columns)
            ELSE parseFields(decls, i + 1,
                             Append(fields, FieldOf(f, columnName, jsonb)),
                             IF jsonb # "" /\ ~Contains(columns, jsonb)
                             THEN Append(columns, jsonb) ELSE columns)

parseStruct(type) == parseFields(StructTypes[type].fields, 1, <<>>, <<>>)

\* NewModel(object): the model of a record type, with no connection
NewModel(type) ==
    /\ object = TypeNamed(type)
    /\ structType = type
    /\ tableName = ToTableName(TypeNamed(type))
    /\ modelFields = parseStruct(type).fields
    /\ jsonbColumns = parseStruct(type).jsonbColumns
    /\ connection = "nil"

\* NewModel(object) for a record type given by its declaration
NewModelOf(o) ==
    /\ object = o
    /\ structType = o.Name
    /\ tableName = ToTableName(o)
    /\ modelFields = parseFields(o.fields, 1, <<>>, <<>>).fields
    /\ jsonbColumns = parseFields(o.fields, 1, <<>>, <<>>).jsonbColumns
    /\ connection = "nil"

(***************************************************************************)
(* Go values and their JSON encoding.                                      *)
(***************************************************************************)
\* a Go value: its dynamic type and its content, as text
Value(t, v) == [t |-> t, v |-> v]

\* the zero value of a Go type
Zero(type) ==
    CASE type = "string" -> Value("string", "")
      [] type = "int" -> Value("int", "0")
      [] OTHER -> Value(type, "null")

\* json.Marshal: the JSON value of a Go value. Every value of the model is one
\* that encoding/json can encode.
Marshal(val) ==
    CASE val.t = "string" -> [k |-> "string", v |-> val.v]
      [] val.t \in {"int", "float64"} -> [k |-> "number", v |-> val.v]
      [] val.t = "nil" -> [k |-> "null", v |-> "null"]
      [] OTHER -> [k |-> "object", v |-> val.v]

\* the text of a JSON value
JSONText(j) == IF j.k = "string" THEN "\"" \o j.v \o "\"" ELSE j.v

\* the JSON numbers of the model that are integers
IsInteger(v) == v \in {"0", "1", "2", "7"}

\* json.Unmarshal of a JSON value into a new value of a Go type: ok is false
\* when Unmarshal returns an error. null leaves the zero value, for every type.
Unmarshal(j, type) ==
    CASE j.k = "null" -> [ok |-> TRUE, val |-> Zero(type)]
      [] type = "string" ->
            IF j.k = "string" THEN [ok |-> TRUE, val |-> Value("string", j.v)]
            ELSE [ok |-> FALSE, val |-> Zero(type)]
      [] type = "int" ->
            IF j.k = "number" /\ IsInteger(j.v) THEN [ok |-> TRUE, val |-> Value("int", j.v)]
            ELSE [ok |-> FALSE, val |-> Zero(type)]
      [] OTHER ->
            IF j.k = "object" THEN [ok |-> TRUE, val |-> Value(type, j.v)]
            ELSE [ok |-> FALSE, val |-> Zero(type)]

(***************************************************************************)
(* Permit, PermitAllExcept and Filter.                                     *)
(***************************************************************************)
Indexes(fields) == [i \in 1..Len(fields) |-> i]

Names(fields) == {fields[i].Name : i \in 1..Len(fields)}

JsonNames(fields) == {fields[i].JsonName : i \in 1..Len(fields)}

\* (mutant) one index per given name, a repeated name giving it again
RECURSIVE PermitIdx_PerName(_, _)
PermitIdx_PerName(fields, fieldNames) ==
    IF fieldNames = <<>> THEN <<>>
    ELSE SelectSeq(Indexes(fields), LAMBDA i : fields[i].Name = Head(fieldNames))
         \o PermitIdx_PerName(fields, Tail(fieldNames))

\* Permit: the indexes of the fields whose name is among fieldNames
PermitIdx(fields, fieldNames) ==
    SelectSeq(Indexes(fields), LAMBDA i : Contains(fieldNames, fields[i].Name))

\* PermitAllExcept: the indexes of the fields whose name is not among fieldNames
PermitAllExceptIdx(fields, fieldNames) ==
    SelectSeq(Indexes(fields), LAMBDA i : ~Contains(fieldNames, fields[i].Name))

\* reflect.Type.FieldByName: the declared field of that name, searched
\* breadth first through the embedded members
RECURSIVE FieldByName(_, _)
FieldByName(type, name) ==
    LET decls == StructTypes[type].fields
        own == {i \in 1..Len(decls) : decls[i].Name = name}
        subs == {i \in 1..Len(decls) : decls[i].Anonymous /\ FieldByName(decls[i].Type, name).ok}
    IN IF own # {}
       THEN [ok |-> TRUE, Type |-> decls[CHOOSE i \in own : TRUE].Type]
       ELSE IF Cardinality(subs) = 1
       THEN FieldByName(decls[CHOOSE i \in subs : TRUE].Type, name)
       ELSE [ok |-> FALSE, Type |-> ""]

\* a Changes map with one more entry
Put(changes, field, value) ==
    [f \in DOMAIN changes \cup {field} |-> IF f = field THEN value ELSE changes[f]]

EmptyChanges == [f \in {} |-> Value("nil", "")]

\* a new value of the record type: every field of the model at its zero value
ZeroRecord(type) ==
    [n \in Names(parseStruct(type).fields) |-> Zero(FieldByName(type, n).Type)]

\* (mutant) the first value that does not decode ends the loop
RECURSIVE filterPermits_Abort(_, _, _, _, _)
filterPermits_Abort(type, fields, idx, in, o) ==
    IF idx = <<>> THEN o
    ELSE LET field == fields[Head(idx)]
             f == FieldByName(type, field.Name)
             x == Unmarshal(Marshal(in[field.JsonName]), f.Type)
         IN IF field.JsonName \notin DOMAIN in THEN filterPermits_Abort(type, fields, Tail(idx), in, o)
            ELSE IF ~f.ok \/ ~x.ok THEN o
            ELSE filterPermits_Abort(type, fields, Tail(idx), in, Put(o, field, x.val))

\* filterPermits: for each permitted field, its value in the input, encoded
\* and decoded into the field's type; a value that does not decode is skipped
RECURSIVE filterPermits(_, _, _, _, _)
filterPermits(type, fields, idx, in, o) ==
    IF idx = <<>> THEN o
    ELSE LET field == fields[Head(idx)]
             f == FieldByName(type, field.Name)
             x == Unmarshal(Marshal(in[field.JsonName]), f.Type)
         IN IF field.JsonName \notin DOMAIN in THEN filterPermits(type, fields, Tail(idx), in, o)
            ELSE IF ~f.ok THEN filterPermits(type, fields, Tail(idx), in, o)
            ELSE IF ~x.ok THEN filterPermits(type, fields, Tail(idx), in, o)
            ELSE filterPermits(type, fields, Tail(idx), in, Put(o, field, x.val))

\* (mutant) every field of the model by name, permitted or not
PermittedByName_All(fields, idx) ==
    [n \in Names(fields) |-> fields[CHOOSE i \in 1..Len(fields) : fields[i].Name = n]]

\* the struct branch of Filter: the permitted fields by name (a later field
\* of the same name replaces an earlier one)
PermittedByName(fields, idx) ==
    LET names == {fields[idx[k]].Name : k \in 1..Len(idx)}
        last(n) == CHOOSE k \in 1..Len(idx) :
                      /\ fields[idx[k]].Name = n
                      /\ \A l \in 1..Len(idx) : fields[idx[l]].Name = n => l <= k
    IN [n \in names |-> fields[idx[last(n)]]]

\* the struct branch of Filter: the value of every field of the input whose
\* name is a permitted field's name is copied as it is
FilterStruct(fields, idx, in, o) ==
    LET byName == PermittedByName(fields, idx)
        hit == DOMAIN in \cap DOMAIN byName
    IN [f \in DOMAIN o \cup {byName[n] : n \in hit} |->
           IF \E n \in hit : byName[n] = f
           THEN in[CHOOSE n \in hit : byName[n] = f]
           ELSE o[f]]

\* (mutant) a field an earlier input has set keeps that value
FilterOne_FirstWins(type, fields, idx, in, o) ==
    LET n == CASE in.kind \in {"RawChanges", "map"} -> filterPermits(type, fields, idx, in.obj, o)
               [] in.kind \in {"string", "[]byte", "io.Reader"} ->
                     IF in.ok THEN filterPermits(type, fields, idx, in.obj, o) ELSE o
               [] in.kind = "struct" -> FilterStruct(fields, idx, in.obj, o)
               [] OTHER -> o
    IN [f \in DOMAIN n |-> IF f \in DOMAIN o THEN o[f] ELSE n[f]]

\* one turn of Filter's loop over its inputs
FilterOne(type, fields, idx, in, o) ==
    CASE in.kind \in {"RawChanges", "map"} -> filterPermits(type, fields, idx, in.obj, o)
      [] in.kind \in {"string", "[]byte", "io.Reader"} ->
            IF in.ok THEN filterPermits(type, fields, idx, in.obj, o) ELSE o
      [] in.kind = "struct" -> FilterStruct(fields, idx, in.obj, o)
      [] OTHER -> o

\* the inputs of the model
Input(kind, ok, obj) == [kind |-> kind, ok |-> ok, obj |-> obj]

NoInput == Input("none", FALSE, EmptyChanges)

\* the values of a decoded JSON object, or of a map given as it is
RawValues == {Value("string", "a"), Value("float64", "1")}

\* the values of the fields of a struct given as input
StructValues == {Value("string", "a"), Value("int", "1")}

\* the keys of the raw inputs: the fields' JSON names, their names, and a
\* key that is no field
RawKeys(fields) == JsonNames(fields) \cup Names(fields) \cup {"BadData"}

Objects(keys, values) ==
    UNION {[S -> values] : S \in {T \in SUBSET keys : Cardinality(T) <= MaxKeys}}

Inputs(fields) ==
    {Input(k, TRUE, obj) : k \in {"RawChanges", "map", "string", "[]byte", "io.Reader"},
                           obj \in Objects(RawKeys(fields), RawValues)}
    \cup {Input(k, FALSE, EmptyChanges) : k \in {"string", "[]byte", "io.Reader"}}
    \cup {Input("struct", TRUE, obj) : obj \in Objects(Names(fields) \cup {"BadData"}, StructValues)}
    \cup {Input("int", TRUE, EmptyChanges)}

\* the names given to Permit and PermitAllExcept
BoundedSeq(S, n) == UNION {[1..k -> S] : k \in 0..n}

PermitNames(fields) == BoundedSeq(Names(fields) \cup {"Invalid"}, MaxNames)

\* the inputs and the names, for each record type
ModelTypes == {"admin", "order", "profile"}

\* the record types Filter and Changes are called on
InputTypes == ModelTypes \cup {"account"}

InputsOf == [type \in InputTypes |-> Inputs(parseStruct(type).fields)]

PermitNamesOf == [type \in InputTypes |-> PermitNames(parseStruct(type).fields)]

\* Permit makes a new receiver (the Filter calls on an earlier one are over)
Permit(fieldNames) ==
    /\ fpc = "idle"
    /\ permitKind' = "Permit"
    /\ permitArgs' = fieldNames
    /\ permittedFieldsIdx' = PermitIdx(modelFields, fieldNames)
    /\ UNCHANGED <<fpc, input, out, modelVars, txVars, stmtVars, recordVars, queryVars>>

PermitAllExcept(fieldNames) ==
    /\ fpc = "idle"
    /\ permitKind' = "PermitAllExcept"
    /\ permitArgs' = fieldNames
    /\ permittedFieldsIdx' = PermitAllExceptIdx(modelFields, fieldNames)
    /\ UNCHANGED <<fpc, input, out, modelVars, txVars, stmtVars, recordVars, queryVars>>

\* Filter is called: out = Changes{}
FilterCall ==
    /\ fpc \in {"idle", "returned"}
    /\ fpc' = "loop" /\ input' = NoInput /\ out' = EmptyChanges
    /\ UNCHANGED <<permitKind, permitArgs, permittedFieldsIdx, modelVars, txVars, stmtVars, recordVars, queryVars>>

\* the body of Filter's loop, for one input
FilterInput(in) ==
    /\ fpc = "loop"
    /\ fpc' = "handled"
    /\ input' = in
    /\ out' = FilterOne(structType, modelFields, permittedFieldsIdx, in, out)
    /\ UNCHANGED <<permitKind, permitArgs, permittedFieldsIdx, modelVars, txVars, stmtVars, recordVars, queryVars>>

\* the loop goes on to the next input
FilterNext ==
    /\ fpc = "handled"
    /\ fpc' = "loop"
    /\ input' = NoInput
    /\ UNCHANGED <<out, permitKind, permitArgs, permittedFieldsIdx, modelVars, txVars, stmtVars, recordVars, queryVars>>

\* Filter returns out; the receiver may be used again
FilterReturn ==
    /\ fpc \in {"loop", "handled"}
    /\ fpc' = "returned"
    /\ UNCHANGED <<input, out, permitKind, permitArgs, permittedFieldsIdx, modelVars, txVars, stmtVars, recordVars, queryVars>>

\* the caller drops the result
FilterDone ==
    /\ fpc = "returned"
    /\ fpc' = "idle" /\ input' = NoInput /\ out' = EmptyChanges
    /\ UNCHANGED <<permitKind, permitArgs, permittedFieldsIdx, modelVars, txVars, stmtVars, recordVars, queryVars>>

(***************************************************************************)
(* sqlWithValues.execute                                                   *)
(***************************************************************************)
actionQueryRow == 0
actionExecute == 1

\* *TxOptions: nil, or an isolation level and two optional hooks
NilTxOptions == [isNil |-> TRUE, IsolationLevel |-> "", Before |-> FALSE, After |-> FALSE]

TxOptions ==
    {NilTxOptions} \cup
    [isNil : {FALSE}, IsolationLevel : {"", "serializable"},
     Before : BOOLEAN, After : BOOLEAN]

\* What a hook or a statement on the handle may do: return nil, return an
\* error, panic with a value, or panic with nil. go.mod declares go 1.15:
\* recover() returns nil for panic(nil) with a toolchain before 1.21, and
\* since 1.21 when the main module declares go 1.20 or earlier; otherwise
\* panic(nil) is a panic with a *runtime.PanicNilError, the outcome "panic".
Outcomes == {"ok", "err", "panic", "panic(nil)"}

Panics == {"panic", "panic(nil)"}

\* the value of the panic of an outcome in a phase
PanicValue(o, phase) == IF o = "panic(nil)" THEN "nil" ELSE "panic in " \o phase

\* recover() in the deferred function: the value of the panic in flight, nil
\* when there is none
Recover(p) == IF p = "none" THEN "nil" ELSE p

\* (mutant) txOpts == nil alone
NoTransaction_NilOnly(opts) == opts.isNil

\* txOpts == nil || (txOpts.Before == nil && txOpts.After == nil)
NoTransaction(opts) == opts.isNil \/ (~opts.Before /\ ~opts.After)

Call(op, h, ret) == [op |-> op, h |-> h, ret |-> ret]

\* the statement call made for an action, directly or on the handle
DirectOp(act) == IF act = actionQueryRow THEN "QueryRow" ELSE "Exec"
TxOp(act) == IF act = actionQueryRow THEN "QueryRowContext" ELSE "ExecContext"

\* the deferred function's choice: r != nil, else err != nil, else commit
DeferredOp(r, e) ==
    IF r # "nil" THEN "Rollback"
    ELSE IF e # "nil" THEN "Rollback"
    ELSE "Commit"

\* (mutant) err = tx.Rollback(ctx): a failed Rollback replaces the error
DeferredErr_RollbackWins(op, e, ret) ==
    IF op = "Commit" THEN ret ELSE IF ret # "nil" THEN ret ELSE e

\* the named result after the deferred call returned ret: only Commit's
\* result is assigned to err, Rollback's is dropped
DeferredErr(op, e, ret) == IF op = "Commit" THEN ret ELSE e

\* (mutant) no return after a failed Before
AfterBefore_NoReturn(e) == "main"

\* where execute goes after Before returned e
AfterBefore(e) == IF e # "nil" THEN "deferred" ELSE "main"

\* where execute goes after the main statement returned e
AfterMain(e, opts) ==
    IF e # "nil" THEN "deferred"
    ELSE IF opts.After THEN "after" ELSE "deferred"

SetConnection ==
    /\ pc \in {"idle", "done"}
    /\ connection' = IF connection = "nil" THEN "db" ELSE "nil"
    /\ UNCHANGED <<pc, action, txOpts, tx, err, panicValue, calls, nCalls>>
    /\ UNCHANGED <<modelVars, filterVars, stmtVars, recordVars, queryVars>>

\* entry of execute, up to the first call on the driver
Execute(act, opts) ==
    /\ pc \in {"idle", "done"}
    /\ nCalls < MaxCalls
    /\ nCalls' = nCalls + 1
    /\ action' = act
    /\ txOpts' = opts
    /\ calls' = <<>>
    /\ tx' = 0
    /\ panicValue' = "none"
    /\ IF connection = "nil"
       THEN err' = "ErrNoConnection" /\ pc' = "done"
       ELSE /\ err' = "nil"
            /\ pc' = IF NoTransaction(opts) THEN "direct" ELSE "begin"
    /\ UNCHANGED connection
    /\ UNCHANGED <<modelVars, filterVars, stmtVars, recordVars, queryVars>>

\* no transaction: one statement on the connection
Direct(o) ==
    /\ pc = "direct"
    /\ o \in {"ok", "err"}
    /\ LET e == IF o = "ok" THEN "nil" ELSE "ErrMain"
       IN /\ calls' = Append(calls, Call(DirectOp(action), 0, e))
          /\ err' = e
    /\ pc' = "done"
    /\ UNCHANGED <<connection, action, txOpts, tx, panicValue, nCalls>>
    /\ UNCHANGED <<modelVars, filterVars, stmtVars, recordVars, queryVars>>

\* (mutant) the deferred function is registered before err is looked at: a
\* failed BeginTx goes on to it
BeginTx_DeferFirst(o) ==
    /\ pc = "begin"
    /\ o \in {"ok", "err"}
    /\ IF o = "ok"
       THEN /\ calls' = Append(calls, Call("BeginTx", 0, "nil"))
            /\ tx' = nCalls
            /\ err' = "nil"
            /\ pc' = IF txOpts.Before THEN "before" ELSE "main"
       ELSE /\ calls' = Append(calls, Call("BeginTx", 0, "ErrBegin"))
            /\ tx' = 0
            /\ err' = "ErrBegin"
            /\ pc' = "deferred"
    /\ UNCHANGED <<connection, action, txOpts, panicValue, nCalls>>
    /\ UNCHANGED <<modelVars, filterVars, stmtVars, recordVars, queryVars>>

\* tx, err := s.model.connection.BeginTx(ctx, txOpts.IsolationLevel)
BeginTx(o) ==
    /\ pc = "begin"
    /\ o \in {"ok", "err"}
    /\ IF o = "ok"
       THEN /\ calls' = Append(calls, Call("BeginTx", 0, "nil"))
            /\ tx' = nCalls
            /\ err' = "nil"
            /\ pc' = IF txOpts.Before THEN "before" ELSE "main"
       ELSE /\ calls' = Append(calls, Call("BeginTx", 0, "ErrBegin"))
            /\ tx' = 0
            /\ err' = "ErrBegin"
            /\ pc' = "done"
    /\ UNCHANGED <<connection, action, txOpts, panicValue, nCalls>>
    /\ UNCHANGED <<modelVars, filterVars, stmtVars, recordVars, queryVars>>

\* err = txOpts.Before(ctx, tx)
RunBefore(o) ==
    /\ pc = "before"
    /\ o \in Outcomes
    /\ IF o \in Panics
       THEN /\ calls' = Append(calls, Call("Before", tx, "panic"))
            /\ panicValue' = PanicValue(o, "Before")
            /\ pc' = "deferred"
            /\ UNCHANGED err
       ELSE LET e == IF o = "ok" THEN "nil" ELSE "ErrBefore"
            IN /\ calls' = Append(calls, Call("Before", tx, e))
               /\ err' = e
               /\ pc' = AfterBefore(e)
               /\ UNCHANGED panicValue
    /\ UNCHANGED <<connection, action, txOpts, tx, nCalls>>
    /\ UNCHANGED <<modelVars, filterVars, stmtVars, recordVars, queryVars>>

\* the main statement on the handle, through returnRowsAffected for Exec
RunMain(o) ==
    /\ pc = "main"
    /\ o \in Outcomes
    /\ IF o \in Panics
       THEN /\ calls' = Append(calls, Call(TxOp(action), tx, "panic"))
            /\ panicValue' = PanicValue(o, "main")
            /\ pc' = "deferred"
            /\ UNCHANGED err
       ELSE LET e == IF o = "ok" THEN "nil" ELSE "ErrMain"
            IN /\ calls' = Append(calls, Call(TxOp(action), tx, e))
               /\ err' = e
               /\ pc' = AfterMain(e, txOpts)
               /\ UNCHANGED panicValue
    /\ UNCHANGED <<connection, action, txOpts, tx, nCalls>>
    /\ UNCHANGED <<modelVars, filterVars, stmtVars, recordVars, queryVars>>

\* err = txOpts.After(ctx, tx)
RunAfter(o) ==
    /\ pc = "after"
    /\ o \in Outcomes
    /\ IF o \in Panics
       THEN /\ calls' = Append(calls, Call("After", tx, "panic"))
            /\ panicValue' = PanicValue(o, "After")
            /\ UNCHANGED err
       ELSE LET e == IF o = "ok" THEN "nil" ELSE "ErrAfter"
            IN /\ calls' = Append(calls, Call("After", tx, e))
               /\ err' = e
               /\ UNCHANGED panicValue
    /\ pc' = "deferred"
    /\ UNCHANGED <<connection, action, txOpts, tx, nCalls>>
    /\ UNCHANGED <<modelVars, filterVars, stmtVars, recordVars, queryVars>>

\* the deferred function: recover, then Rollback or Commit; execute returns
Deferred(o) ==
    /\ pc = "deferred"
    /\ o \in {"ok", "err"}
    /\ LET op == DeferredOp(Recover(panicValue), err)
           ret == IF o = "ok" THEN "nil" ELSE "Err" \o op
       IN /\ calls' = Append(calls, Call(op, tx, ret))
          /\ err' = DeferredErr(op, err, ret)
    /\ panicValue' = "none"
    /\ pc' = "done"
    /\ UNCHANGED <<connection, action, txOpts, tx, nCalls>>
    /\ UNCHANGED <<modelVars, filterVars, stmtVars, recordVars, queryVars>>

(***************************************************************************)
(* The statement builder: Insert and Update.                               *)
(***************************************************************************)
\* the orders in which a range over a map with the keys S can go
RECURSIVE Perms(_)
Perms(S) ==
    IF S = {} THEN {<<>>}
    ELSE UNION {{<<x>> \o p : p \in Perms(S \ {x})} : x \in S}

\* the orders of the ranges over each of the change sets
RECURSIVE RangeOrders(_)
RangeOrders(lots) ==
    IF lots = <<>> THEN {<<>>}
    ELSE {<<p>> \o r : p \in Perms(DOMAIN Head(lots)), r \in RangeOrders(Tail(lots))}

\* the orders of the ranges over the change set of each jsonb column
InnerOrders(jsonbFields) ==
    {o \in [DOMAIN jsonbFields -> UNION {Perms(DOMAIN jsonbFields[c]) : c \in DOMAIN jsonbFields}] :
        \A c \in DOMAIN jsonbFields : o[c] \in Perms(DOMAIN jsonbFields[c])}

\* strings.Join
RECURSIVE Join(_, _)
Join(elems, sep) ==
    IF elems = <<>> THEN ""
    ELSE IF Len(elems) = 1 THEN elems[1]
    ELSE elems[1] \o sep \o Join(Tail(elems), sep)

\* strings.TrimSpace of the concatenation of parts, each of which is empty, a
\* single space, or a text that neither starts nor ends with a space
RECURSIVE TrimLeft(_)
TrimLeft(parts) ==
    IF parts = <<>> THEN <<>>
    ELSE IF Head(parts) \in {"", " "} THEN TrimLeft(Tail(parts))
    ELSE parts

RECURSIVE TrimRight(_)
TrimRight(parts) ==
    IF parts = <<>> THEN <<>>
    ELSE IF parts[Len(parts)] \in {"", " "} THEN TrimRight(SubSeq(parts, 1, Len(parts) - 1))
    ELSE parts

TrimSpace(parts) == Join(TrimRight(TrimLeft(parts)), "")

\* the placeholder $n, and the expressions Update assigns
Dollar(n) == "$" \o ToString(n)

Param(n) == [op |-> "param", n |-> n]

Coalesce(column) == [op |-> "COALESCE", column |-> column]

JsonbSet(target, path, n) == [op |-> "jsonb_set", target |-> target, path |-> path, n |-> n]

\* the text of an expression
RECURSIVE ExprText(_)
ExprText(e) ==
    CASE e.op = "param" -> Dollar(e.n)
      [] e.op = "COALESCE" -> "COALESCE(" \o e.column \o ", '{}'::jsonb)"
      [] e.op = "jsonb_set" ->
            "jsonb_set(" \o ExprText(e.target) \o ", '{" \o e.path \o "}', " \o Dollar(e.n) \o ")"

\* an assignment of the SET clause, and its text
Assignment(column, expr) == [column |-> column, expr |-> expr]

AssignmentText(a) == a.column \o " = " \o ExprText(a.expr)

\* json.Marshal of a map[string]interface{}: the keys in byte order. KeyOrder
\* lists the names and the column names of the fields in that order.
KeyOrder ==
    <<"BadType", "FieldInJsonb", "Home", "Id", "JSONBTEST", "Name", "Password", "Sources2",
      "Status", "UserId", "Work",
      "bad_type", "city", "field_in_jsonb", "id", "jsonbTest", "name", "password", "sources2",
      "status", "user_id">>

MarshalMap(obj) ==
    LET keys == SelectSeq(KeyOrder, LAMBDA k : k \in DOMAIN obj)
        members == [i \in 1..Len(keys) |->
                       "\"" \o keys[i] \o "\":" \o JSONText(Marshal(obj[keys[i]]))]
    IN "{" \o Join(members, ",") \o "}"

\* the locals of Insert and of Update
Locals(vals, i) ==
    [fields |-> <<>>, fieldsIndex |-> EmptyChanges, numbers |-> <<>>,
     values |-> vals, jsonbFields |-> EmptyChanges, i |-> i]

\* jsonbFields[field.Jsonb][field] = value
PutJsonb(jsonbFields, field, value) ==
    Put(jsonbFields, field.Jsonb,
        Put(IF field.Jsonb \in DOMAIN jsonbFields THEN jsonbFields[field.Jsonb] ELSE EmptyChanges,
            field, value))

\* (mutant) a field seen again keeps its first value
InsertField_FirstWins(l, field, value) ==
    IF field.Jsonb # "" THEN [l EXCEPT !.jsonbFields = PutJsonb(@, field, value)]
    ELSE IF field.Name \in DOMAIN l.fieldsIndex THEN l
    ELSE [l EXCEPT !.fields = Append(@, field.ColumnName),
                   !.fieldsIndex = Put(@, field.Name, l.i - 1),
                   !.numbers = Append(@, l.i),
                   !.values = Append(@, value),
                   !.i = @ + 1]

\* Insert, the body of the loop over one change set
InsertField(l, field, value) ==
    IF field.Jsonb # "" THEN [l EXCEPT !.jsonbFields = PutJsonb(@, field, value)]
    ELSE IF field.Name \in DOMAIN l.fieldsIndex
    THEN [l EXCEPT !.values[l.fieldsIndex[field.Name] + 1] = value]
    ELSE [l EXCEPT !.fields = Append(@, field.ColumnName),
                   !.fieldsIndex = Put(@, field.Name, l.i - 1),
                   !.numbers = Append(@, l.i),
                   !.values = Append(@, value),
                   !.i = @ + 1]

\* Insert, the loops over the change sets, each in the given order
RECURSIVE InsertChanges(_, _, _)
InsertChanges(l, changes, order) ==
    IF order = <<>> THEN l
    ELSE InsertChanges(InsertField(l, Head(order), changes[Head(order)]), changes, Tail(order))

RECURSIVE InsertLots(_, _, _)
InsertLots(l, lots, orders) ==
    IF lots = <<>> THEN l
    ELSE InsertLots(InsertChanges(l, Head(lots), Head(orders)), Tail(lots), Tail(orders))

\* (mutant) out[field.Name] = value
RECURSIVE ByColumnName_ByName(_, _, _)
ByColumnName_ByName(changes, order, o) ==
    IF order = <<>> THEN o
    ELSE ByColumnName_ByName(changes, Tail(order),
                             Put(o, Head(order).Name, changes[Head(order)]))

\* out[field.ColumnName] = value, for the fields of one jsonb column
RECURSIVE ByColumnName(_, _, _)
ByColumnName(changes, order, o) ==
    IF order = <<>> THEN o
    ELSE ByColumnName(changes, Tail(order),
                      Put(o, Head(order).ColumnName, changes[Head(order)]))

\* Insert, the loop over jsonbFields in the order cols
RECURSIVE InsertJsonb(_, _, _)
InsertJsonb(l, cols, inner) ==
    IF cols = <<>> THEN l
    ELSE LET jsonbField == Head(cols)
             o == ByColumnName(l.jsonbFields[jsonbField], inner[jsonbField], EmptyChanges)
         IN InsertJsonb([l EXCEPT !.fields = Append(@, jsonbField),
                                  !.numbers = Append(@, l.i),
                                  !.values = Append(@, Value("string", MarshalMap(o))),
                                  !.i = @ + 1],
                        Tail(cols), inner)

\* NewSQLWithValues: the statement, with the lists its text was joined from
NewSQLWithValues(op, parts, vals, fields, numbers) ==
    [op |-> op, sql |-> TrimSpace(parts), values |-> vals, fields |-> fields, numbers |-> numbers]

NoStmt == NewSQLWithValues("none", <<>>, <<>>, <<>>, <<>>)

\* Insert(lotsOfChanges...)(a...), when its ranges over maps go in the orders
\* given: orders for the change sets, cols for jsonbFields, inner for the
\* fields of each jsonb column
InsertStatement(lots, a, orders, cols, inner) ==
    LET l2 == InsertJsonb(InsertLots(Locals(<<>>, 1), lots, orders), cols, inner)
        suffix == IF Len(a) > 0 THEN a[1] ELSE ""
        numbers == [k \in 1..Len(l2.numbers) |-> Dollar(l2.numbers[k])]
    IN NewSQLWithValues("Insert",
          <<"INSERT INTO " \o tableName \o " (" \o Join(l2.fields, ", ") \o ") VALUES ("
               \o Join(numbers, ", ") \o ")", " ", suffix>>,
          l2.values, l2.fields, l2.numbers)

\* the statements Insert(lots...)(a...) can return: one for each order the
\* ranges over the change sets, over jsonbFields and over the fields of each
\* jsonb column can take
InsertStatements(lots, a) ==
    UNION {LET jsonbFields == InsertLots(Locals(<<>>, 1), lots, orders).jsonbFields
           IN {InsertStatement(lots, a, orders, cols, inner) :
                  cols \in Perms(DOMAIN jsonbFields), inner \in InnerOrders(jsonbFields)} :
           orders \in RangeOrders(lots)}

\* Insert(lotsOfChanges...)(a...)
InsertCall(lots, a) ==
    /\ lotsOfChanges' = lots
    /\ args' = a
    /\ stmt' \in InsertStatements(lots, a)
    /\ UNCHANGED <<modelVars, txVars, filterVars, recordVars, queryVars>>

\* Update: the where clause and the arguments after it
WhereOf(a) == IF Len(a) > 0 /\ a[1].t = "string" THEN a[1].v ELSE ""

ArgsOf(a) == IF Len(a) > 0 /\ a[1].t = "string" THEN Tail(a) ELSE a

\* (mutant) i := 1
FirstNumber_One(a) == 1

\* Update, i := len(args) + 1
FirstNumber(a) == Len(a) + 1

\* (mutant) fieldsIndex[field.Name] = len(fields): the index among the
\* assignments, not among the values, which start with the arguments
UpdateField_IndexOfField(l, field, value) ==
    IF field.Jsonb # "" THEN [l EXCEPT !.jsonbFields = PutJsonb(@, field, value)]
    ELSE IF field.Name \in DOMAIN l.fieldsIndex
    THEN [l EXCEPT !.values[l.fieldsIndex[field.Name] + 1] = value]
    ELSE [l EXCEPT !.fields = Append(@, Assignment(field.ColumnName, Param(l.i))),
                   !.fieldsIndex = Put(@, field.Name, Len(l.fields)),
                   !.values = Append(@, value),
                   !.i = @ + 1]

\* Update, the body of the loop over one change set
UpdateField(l, field, value) ==
    IF field.Jsonb # "" THEN [l EXCEPT !.jsonbFields = PutJsonb(@, field, value)]
    ELSE IF field.Name \in DOMAIN l.fieldsIndex
    THEN [l EXCEPT !.values[l.fieldsIndex[field.Name] + 1] = value]
    ELSE [l EXCEPT !.fields = Append(@, Assignment(field.ColumnName, Param(l.i))),
                   !.fieldsIndex = Put(@, field.Name, l.i - 1),
                   !.values = Append(@, value),
                   !.i = @ + 1]

RECURSIVE UpdateChanges(_, _, _)
UpdateChanges(l, changes, order) ==
    IF order = <<>> THEN l
    ELSE UpdateChanges(UpdateField(l, Head(order), changes[Head(order)]), changes, Tail(order))

RECURSIVE UpdateLots(_, _, _)
UpdateLots(l, lots, orders) ==
    IF lots = <<>> THEN l
    ELSE UpdateLots(UpdateChanges(l, Head(lots), Head(orders)), Tail(lots), Tail(orders))

\* (mutant) one jsonb column assigned the encoded map of its fields
JsonbPatches_Wholesale(l, jsonbField, order, field) ==
    [l EXCEPT !.fields = Append(@, Assignment(jsonbField, Param(l.i))),
              !.values = Append(@, Value("string",
                            MarshalMap(ByColumnName(l.jsonbFields[jsonbField], order, EmptyChanges)))),
              !.i = @ + 1]

\* Update, one jsonb column: a jsonb_set around field for each of its fields
\* in the given order, then the assignment
RECURSIVE JsonbPatches(_, _, _, _)
JsonbPatches(l, jsonbField, order, field) ==
    IF order = <<>> THEN [l EXCEPT !.fields = Append(@, Assignment(jsonbField, field))]
    ELSE LET f == Head(order)
             j == Marshal(l.jsonbFields[jsonbField][f])
         IN JsonbPatches([l EXCEPT !.values = Append(@, Value("string", JSONText(j))),
                                   !.i = @ + 1],
                         jsonbField, Tail(order), JsonbSet(field, f.ColumnName, l.i))

\* Update, the loop over jsonbFields in the order cols
RECURSIVE UpdateJsonb(_, _, _)
UpdateJsonb(l, cols, inner) ==
    IF cols = <<>> THEN l
    ELSE UpdateJsonb(JsonbPatches(l, Head(cols), inner[Head(cols)], Coalesce(Head(cols))),
                     Tail(cols), inner)

\* Update(lotsOfChanges...)(a...), when its ranges over maps go in the orders
\* given
UpdateStatement(lots, a, orders, cols, inner) ==
    LET l2 == UpdateJsonb(UpdateLots(Locals(ArgsOf(a), FirstNumber(ArgsOf(a))), lots, orders),
                          cols, inner)
        fields == [k \in 1..Len(l2.fields) |-> AssignmentText(l2.fields[k])]
    IN NewSQLWithValues("Update",
          <<"UPDATE " \o tableName \o " SET", " ", Join(fields, ", "), " ", WhereOf(a)>>,
          l2.values, l2.fields, <<>>)

\* the statements Update(lots...)(a...) can return, one for each order of
\* its ranges over maps
UpdateStatements(lots, a) ==
    UNION {LET jsonbFields ==
                  UpdateLots(Locals(ArgsOf(a), FirstNumber(ArgsOf(a))), lots, orders).jsonbFields
           IN {UpdateStatement(lots, a, orders, cols, inner) :
                  cols \in Perms(DOMAIN jsonbFields), inner \in InnerOrders(jsonbFields)} :
           orders \in RangeOrders(lots)}

\* Update(lotsOfChanges...)(a...)
UpdateCall(lots, a) ==
    /\ lotsOfChanges' = lots
    /\ args' = a
    /\ stmt' \in UpdateStatements(lots, a)
    /\ UNCHANGED <<modelVars, txVars, filterVars, recordVars, queryVars>>

\* the caller is done with the statement
Discard ==
    /\ stmt # NoStmt
    /\ stmt' = NoStmt
    /\ lotsOfChanges' = <<>>
    /\ args' = <<>>
    /\ UNCHANGED <<modelVars, txVars, filterVars, recordVars, queryVars>>

\* the values the change sets give a field, by the Go type of the field
ChangeValues(type) ==
    CASE type = "string" -> {Value("string", "a"), Value("string", "b")}
      [] type = "int" -> {Value("int", "1")}
      [] OTHER -> {Value(type, "{\"x\":1}")}

\* the change sets over the fields of a record type with at most n entries
ChangeSets(type, n) ==
    LET fields == parseStruct(type).fields
        all == {fields[i] : i \in 1..Len(fields)}
        values == UNION {ChangeValues(FieldByName(type, f.Name).Type) : f \in all}
    IN {c \in UNION {[S -> values] : S \in SUBSET all} :
           /\ Cardinality(DOMAIN c) <= n
           /\ \A f \in DOMAIN c : c[f] \in ChangeValues(FieldByName(type, f.Name).Type)}

\* the sequences of k change sets with at most n entries in all
RECURSIVE ChangeSetSeqs(_, _, _)
ChangeSetSeqs(type, k, n) ==
    IF k = 0 THEN {<<>>}
    ELSE UNION {{<<c>> \o r : r \in ChangeSetSeqs(type, k - 1, n - Cardinality(DOMAIN c))} :
                   c \in ChangeSets(type, n)}

LotsOfChanges(type) == UNION {ChangeSetSeqs(type, k, MaxEntries) : k \in 0..MaxChangeSets}

LotsOf == [type \in ModelTypes |-> LotsOfChanges(type)]

\* the arguments of the function Insert returns: nothing, or a suffix
InsertArgs == {<<>>, <<"RETURNING id">>}

\* the arguments of the function Update returns: nothing, a where clause and
\* its k arguments, or k arguments alone
RECURSIVE WhereClause(_)
WhereClause(k) ==
    IF k = 1 THEN "WHERE a1 = $1"
    ELSE WhereClause(k - 1) \o " AND a" \o ToString(k) \o " = " \o Dollar(k)

WhereArgs(k) == [j \in 1..k |-> Value("int", ToString(j + 1))]

UpdateArgs ==
    {<<>>} \cup {<<Value("string", WhereClause(k))>> \o WhereArgs(k) : k \in 1..MaxWhereArgs}
           \cup {WhereArgs(k) : k \in 1..MaxWhereArgs}

\* a call of Insert and of the function it returns, when no statement is held
Insert ==
    /\ stmt = NoStmt
    /\ \E lots \in LotsOf[structType], a \in InsertArgs : InsertCall(lots, a)

\* a call of Update and of the function it returns, when no statement is held
Update ==
    /\ stmt = NoStmt
    /\ \E lots \in LotsOf[structType], a \in UpdateArgs : UpdateCall(lots, a)

(***************************************************************************)
(* Model.Find, Model.Select, Model.Schema                                  *)
(***************************************************************************)
\* the fields that are columns of their own
FlatFields(fields) == SelectSeq(fields, LAMBDA f : f.Jsonb = "")

ColumnNames(fields) == [i \in 1..Len(fields) |-> fields[i].ColumnName]

\* Select: the statement, its where clause taken from the first argument
Select(op, fields, a) ==
    NewSQLWithValues(op,
        <<"SELECT", " ", Join(fields, ", "), " ", "FROM", " ", tableName, " ", WhereOf(a)>>,
        ArgsOf(a), fields, <<>>)

\* the arguments given to Find
FindArgs == {<<>>, <<Value("string", WhereClause(1)), Value("int", "1")>>}

\* Find: the columns of the flat fields, in the order of the fields, then the
\* jsonb columns
Find(a) ==
    /\ stmt' = Select("Find", ColumnNames(FlatFields(modelFields)) \o jsonbColumns, a)
    /\ args' = a
    /\ lotsOfChanges' = <<>>
    /\ UNCHANGED <<modelVars, txVars, filterVars, recordVars, queryVars>>

\* Schema: jsonbDataType[c], the data type of the first field routed to jsonb
\* column c that has one ("": there is none)
jsonbDataType(fields, c) ==
    LET has == {i \in 1..Len(fields) : fields[i].Jsonb = c /\ fields[i].DataType # ""}
    IN IF has = {} THEN ""
       ELSE fields[CHOOSE i \in has : \A j \in has : i <= j].DataType

\* Schema: one line per flat field, then one line per jsonb column; the record
\* types of the model have no BeforeCreateSchema and no AfterCreateSchema
Schema ==
    LET flat == FlatFields(modelFields)
        lines == [i \in 1..Len(flat) |-> "\t" \o flat[i].ColumnName \o " " \o flat[i].DataType]
                 \o [k \in 1..Len(jsonbColumns) |->
                        "\t" \o jsonbColumns[k] \o " " \o
                        (IF jsonbDataType(modelFields, jsonbColumns[k]) = ""
                         THEN "jsonb DEFAULT '{}'::jsonb NOT NULL"
                         ELSE jsonbDataType(modelFields, jsonbColumns[k]))]
    IN /\ stmt' = [op |-> "Schema",
                   sql |-> "CREATE TABLE " \o tableName \o " (\n" \o Join(lines, ",\n") \o "\n);\n",
                   values |-> <<>>,
                   fields |-> ColumnNames(flat) \o jsonbColumns,
                   numbers |-> <<>>]
       /\ args' = <<>>
       /\ lotsOfChanges' = <<>>
       /\ UNCHANGED <<modelVars, txVars, filterVars, recordVars, queryVars>>

\* the declarations record types are made from: fields of userAlike and of
\* order, and embedded members
DeclPool ==
    {StructField("Id", "int"),
     StructField("Name", "string"),
     [StructField("FieldInJsonb", "string") EXCEPT !.jsonb = Tag("meta", "")],
     Embedded("userAlike"), Embedded("order"), Embedded("profile")}

\* the member lists a struct type can have: no name is declared twice
Declarations ==
    {d \in BoundedSeq(DeclPool, MaxDecls) :
        \A i, j \in 1..Len(d) : i # j => d[i].Name # d[j].Name}

\* the record types given to NewModel: unnamed, user or product
\* (db/utils_test.go), with or without a TableName method and a
\* __TABLE_NAME__ tag
Objects2Model ==
    {Object(n, m, t, d) : n \in {"", "user", "product"}, m \in {"", "different_products"},
                          t \in {"", "custom_name"}, d \in Declarations}

(***************************************************************************)
(* Model.Changes, Model.Assign, ModelWithPermittedFields.Bind              *)
(***************************************************************************)
\* (mutant) Changes decodes every value into the type of its field, as
\* Filter does
Changes_Coerced(fields, i, in, o) ==
    filterPermits(structType, fields, [k \in 1..(Len(fields) - i + 1) |-> k + i - 1], in, o)

\* Model.Changes: the loop over the model's fields from the i-th on; the
\* value of the field's JSON name in the input is stored as it is
RECURSIVE Changes(_, _, _, _)
Changes(fields, i, in, o) ==
    IF i > Len(fields) THEN o
    ELSE IF fields[i].JsonName \notin DOMAIN in THEN Changes(fields, i + 1, in, o)
    ELSE Changes(fields, i + 1, in, Put(o, fields[i], in[fields[i].JsonName]))

\* the RawChanges given to Changes, for each record type
RawChangesOf == [type \in InputTypes |-> Objects(RawKeys(parseStruct(type).fields), RawValues)]

\* a call of Changes
ChangesCall(in) ==
    /\ raw' = in
    /\ outChanges' = Changes(modelFields, 1, in, EmptyChanges)
    /\ recOp' = "Changes"
    /\ recErr' = "nil"
    /\ UNCHANGED <<targetRec, prior, modelVars, txVars, filterVars, stmtVars, queryVars>>

\* the JSON objects held by the map fields of the model, by their text (a
\* nil map has none)
Objects2Text ==
    [o \in UNION {[S -> {"1", "2"}] : S \in SUBSET {"x", "y"}} |->
        CASE o = <<>> -> "{}"
          [] DOMAIN o = {"x"} -> "{\"x\":" \o o["x"] \o "}"
          [] DOMAIN o = {"y"} -> "{\"y\":" \o o["y"] \o "}"
          [] OTHER -> "{\"x\":" \o o["x"] \o ",\"y\":" \o o["y"] \o "}"]

ObjectOf(text) ==
    IF text = "null" THEN <<>>
    ELSE CHOOSE o \in DOMAIN Objects2Text : Objects2Text[o] = text

\* json.Unmarshal of a JSON value into a field that holds cur: null and a
\* value that does not decode leave the field as it is; an object decoded
\* into a map that is not nil is added to the entries the map has
UnmarshalInto(j, type, cur) ==
    LET x == Unmarshal(j, type)
    IN IF j.k = "null" \/ ~x.ok THEN cur
       ELSE IF type = "map[string]int" /\ cur.v # "null"
       THEN LET old == ObjectOf(cur.v)
                new == ObjectOf(x.val.v)
            IN Value(type, Objects2Text[[k \in DOMAIN old \cup DOMAIN new |->
                                            IF k \in DOMAIN new THEN new[k] ELSE old[k]]])
       ELSE x.val

\* Assign, the loop over one change set: the value is encoded and decoded
\* into the field of that name (the fields of a change set have different
\* names, so the order of the map range does not show)
RECURSIVE AssignChanges(_, _, _, _)
AssignChanges(type, rv, changes, todo) ==
    IF todo = {} THEN rv
    ELSE LET field == CHOOSE f \in todo : TRUE
         IN AssignChanges(type,
               [rv EXCEPT ![field.Name] =
                   UnmarshalInto(Marshal(changes[field]), FieldByName(type, field.Name).Type, @)],
               changes, todo \ {field})

\* Assign, the loop over the change sets
RECURSIVE AssignLots(_, _, _)
AssignLots(type, rv, lots) ==
    IF lots = <<>> THEN rv
    ELSE AssignLots(type, AssignChanges(type, rv, Head(lots), DOMAIN Head(lots)), Tail(lots))

\* a target given to Assign or Bind: what it is and the record behind it
Target(kind, val) == [kind |-> kind, val |-> val]

\* a record of the type that has been in use: no field is zero
UsedRecord(type) ==
    [n \in Names(parseStruct(type).fields) |->
        LET tp == FieldByName(type, n).Type
        IN CASE tp = "string" -> Value("string", "old")
             [] tp = "int" -> Value("int", "7")
             [] OTHER -> Value(tp, "{\"y\":2}")]

\* the targets: nil, a record passed by value, and a pointer to a new record
\* or to one in use
TargetsOf ==
    [type \in ModelTypes |->
        {Target("nil", <<>>), Target("struct", ZeroRecord(type)),
         Target("*struct", ZeroRecord(type)), Target("*struct", UsedRecord(type))}]

\* Assign(target, lotsOfChanges...)
Assign(t, lots) ==
    /\ recOp' = "Assign"
    /\ raw' = lots
    /\ prior' = t
    /\ IF t.kind = "nil"
       THEN recErr' = "panic" /\ targetRec' = t.val /\ outChanges' = <<>>
       ELSE IF t.kind # "*struct"
       THEN recErr' = "ErrMustBePointer" /\ targetRec' = t.val /\ outChanges' = <<>>
       ELSE /\ recErr' = "nil"
            /\ targetRec' = AssignLots(structType, t.val, lots)
            /\ outChanges' = lots
    /\ UNCHANGED <<modelVars, txVars, filterVars, stmtVars, queryVars>>

\* what the binder made of the new record it was given, and its error
Binder(e, val) == [err |-> e, val |-> val]

\* the binders: each sets some of the fields, and returns an error or not
BindersOf ==
    [type \in ModelTypes |->
        LET names == Names(parseStruct(type).fields)
            bound(n) == LET tp == FieldByName(type, n).Type
                        IN CASE tp = "string" -> Value("string", "new")
                             [] tp = "int" -> Value("int", "2")
                             [] OTHER -> Value(tp, "{\"x\":1}")
        IN {Binder(e, [n \in names |-> IF n \in S THEN bound(n) ELSE Zero(FieldByName(type, n).Type)]) :
               e \in {"nil", "ErrBind"}, S \in SUBSET names}]

\* Bind, the loop over permittedFieldsIdx: the field of the new record is
\* set on the target and put in the change set; Set and Interface panic on
\* a field that is not exported
RECURSIVE BindFields(_, _, _, _)
BindFields(fields, idx, nv, r) ==
    IF idx = <<>> THEN r
    ELSE LET field == fields[Head(idx)]
         IN IF ~field.Exported THEN [r EXCEPT !.err = "panic"]
            ELSE BindFields(fields, Tail(idx), nv,
                            [r EXCEPT !.rv[field.Name] = nv[field.Name],
                                      !.out = Put(@, field, nv[field.Name])])

\* Bind(ctx, target) on the receiver Permit or PermitAllExcept made
Bind(b, t) ==
    /\ recOp' = "Bind"
    /\ raw' = b
    /\ prior' = t
    /\ IF t.kind = "nil"
       THEN recErr' = "panic" /\ targetRec' = t.val /\ outChanges' = EmptyChanges
       ELSE IF t.kind # "*struct"
       THEN recErr' = "ErrMustBePointer" /\ targetRec' = t.val /\ outChanges' = EmptyChanges
       ELSE IF b.err # "nil"
       THEN recErr' = b.err /\ targetRec' = t.val /\ outChanges' = EmptyChanges
       ELSE LET r == BindFields(modelFields, permittedFieldsIdx, b.val,
                                [err |-> "nil", rv |-> t.val, out |-> EmptyChanges])
            IN /\ recErr' = r.err
               /\ targetRec' = r.rv
               /\ outChanges' = IF r.err = "nil" THEN r.out ELSE EmptyChanges
    /\ UNCHANGED <<modelVars, txVars, filterVars, stmtVars, queryVars>>

\* the caller drops what the call returned
RecordDone ==
    /\ recOp # "none"
    /\ recOp' = "none"
    /\ raw' = EmptyChanges /\ outChanges' = EmptyChanges
    /\ targetRec' = EmptyChanges /\ prior' = EmptyChanges
    /\ recErr' = "nil"
    /\ UNCHANGED <<modelVars, txVars, filterVars, stmtVars, queryVars>>

(***************************************************************************)
(* sqlWithValues.Query, scan, ExecTx; Model.Count, Model.Exists            *)
(***************************************************************************)
\* the JSON values found in the documents of the model
JSONValues ==
    {[k |-> "string", v |-> "a"], [k |-> "string", v |-> "b"], [k |-> "number", v |-> "1"],
     [k |-> "object", v |-> "{\"x\":1}"], [k |-> "null", v |-> "null"]}

\* a json.RawMessage read as a JSON value
Decode(text) == CHOOSE j \in JSONValues : JSONText(j) = text

\* the field of the model that has a name
FieldNamed(fields, name) == fields[CHOOSE i \in 1..Len(fields) : fields[i].Name = name]

\* a jsonb column of a row: NULL, or an object of raw JSON texts by key
Jsonb(null, obj) == [null |-> null, obj |-> obj]

\* a row of the model's table: the values of the plain columns, and the
\* documents of the jsonb columns
Row(flat, docs) == [flat |-> flat, docs |-> docs]

\* jsonbRaw.Scan on a new map: nil leaves it empty, a document fills it
jsonbRawScan(src) == IF src.null THEN <<>> ELSE src.obj

\* scan, the loop over the model's fields for one jsonb map (lines 144-162):
\* every field routed to a jsonb column, whichever it is, takes the value of
\* its column name in the map; a value that does not decode ends the scan
\* with the error. Unmarshal of null leaves the field as it is.
RECURSIVE scanFields(_, _, _, _, _)
scanFields(type, fields, jsonb, i, r) ==
    IF i > Len(fields) THEN r
    ELSE LET field == fields[i]
             j == Decode(jsonb[field.ColumnName])
             x == Unmarshal(j, FieldByName(type, field.Name).Type)
         IN IF field.Jsonb = "" THEN scanFields(type, fields, jsonb, i + 1, r)
            ELSE IF field.ColumnName \notin DOMAIN jsonb THEN scanFields(type, fields, jsonb, i + 1, r)
            ELSE IF ~x.ok THEN [r EXCEPT !.err = "UnmarshalTypeError"]
            ELSE IF j.k = "null" THEN scanFields(type, fields, jsonb, i + 1, r)
            ELSE scanFields(type, fields, jsonb, i + 1, [r EXCEPT !.rv[field.Name] = x.val])

\* scan, the loop over jsonbValues (line 143)
RECURSIVE scanJsonbValues(_, _, _, _)
scanJsonbValues(type, fields, jsonbValues, r) ==
    IF jsonbValues = <<>> \/ r.err # "nil" THEN r
    ELSE scanJsonbValues(type, fields, Tail(jsonbValues),
                         scanFields(type, fields, Head(jsonbValues), 1, r))

\* scan of a row into a value of the model's record type: Scan fills the
\* fields of the plain columns and one map for each jsonb column
scan(type, fields, columns, rv, row) ==
    LET plain == [n \in DOMAIN rv |->
                     IF FieldNamed(fields, n).Jsonb = ""
                     THEN row.flat[FieldNamed(fields, n).ColumnName]
                     ELSE rv[n]]
        jsonbValues == [c \in 1..Len(columns) |-> jsonbRawScan(row.docs[columns[c]])]
    IN scanJsonbValues(type, fields, jsonbValues, [err |-> "nil", rv |-> plain])

\* the documents Insert can write for a record type, by their text: for each
\* text the object of raw JSON texts that json.Unmarshal makes of it
DocumentsOf ==
    [type \in ModelTypes |->
        LET fields == parseStruct(type).fields
            keys == {fields[i].ColumnName : i \in {k \in 1..Len(fields) : fields[k].Jsonb # ""}}
            values == ChangeValues("string") \cup ChangeValues("int")
                         \cup ChangeValues("map[string]int")
            objects == UNION {[S -> values] : S \in SUBSET keys}
        IN [text \in {MarshalMap(o) : o \in objects} |->
               LET o == CHOOSE o \in objects : MarshalMap(o) = text
               IN [k \in DOMAIN o |-> JSONText(Marshal(o[k]))]]]

\* the position of a column in the column list of a statement (0: absent)
IndexOf(seq, x) == IF Contains(seq, x) THEN CHOOSE i \in 1..Len(seq) : seq[i] = x ELSE 0

\* the row the database holds after it has run an INSERT statement of the
\* model: the values given, the column defaults elsewhere
RowOf(type, fields, columns, s) ==
    LET plain == {i \in 1..Len(fields) : fields[i].Jsonb = ""}
    IN Row([c \in {fields[i].ColumnName : i \in plain} |->
               IF Contains(s.fields, c) THEN s.values[IndexOf(s.fields, c)]
               ELSE Zero(FieldByName(type,
                       fields[CHOOSE i \in plain : fields[i].ColumnName = c].Name).Type)],
           [c \in Range(columns) |->
               IF Contains(s.fields, c)
               THEN Jsonb(FALSE, DocumentsOf[type][s.values[IndexOf(s.fields, c)].v])
               ELSE Jsonb(FALSE, <<>>)])

\* the rows other writers have put in the table: the plain columns at their
\* defaults, each jsonb column NULL, empty, or with one key
RowsOf ==
    [type \in ModelTypes |->
        LET fields == parseStruct(type).fields
            columns == parseStruct(type).jsonbColumns
            keys(c) == {fields[i].ColumnName : i \in {k \in 1..Len(fields) : fields[k].Jsonb = c}}
                          \cup {"other"}
            docs(c) == {Jsonb(TRUE, <<>>), Jsonb(FALSE, <<>>)}
                          \cup {Jsonb(FALSE, [k \in {key} |-> text]) :
                                   key \in keys(c), text \in {"\"a\"", "1"}}
            none == NewSQLWithValues("Insert", <<>>, <<>>, <<>>, <<>>)
        IN {Row(RowOf(type, fields, columns, none).flat, d) :
               d \in {f \in [Range(columns) -> UNION {docs(c) : c \in Range(columns)}] :
                         \A c \in Range(columns) : f[c] \in docs(c)}}]

\* the database runs the INSERT statement the model made (lotsOfChanges
\* still holds the change sets the row was made from)
Store ==
    /\ stmt.op = "Insert" /\ stmt.fields # <<>>
    /\ Len(rows) < MaxRows
    /\ rows' = Append(rows, RowOf(structType, modelFields, jsonbColumns, stmt))
    /\ stmt' = NoStmt
    /\ UNCHANGED <<lotsOfChanges, args, qpc, dest, filled, driverCalls, qErr, modelVars, txVars, filterVars, recordVars>>

\* another writer adds a row to the table
Load(row) ==
    /\ Len(rows) < MaxRows
    /\ rows' = Append(rows, row)
    /\ UNCHANGED <<qpc, dest, filled, driverCalls, qErr, modelVars, txVars, filterVars, stmtVars, recordVars>>

\* a destination given to Query: what it is and what it holds
Dest(kind, val) == [kind |-> kind, val |-> val]

NoDest == Dest("none", <<>>)

\* the destinations of the model: nil, a record that is not a pointer, and
\* pointers to a record, to a slice of records, to a map and to an int
Dests(type) ==
    {Dest("nil", <<>>), Dest("struct", ZeroRecord(type)), Dest("*struct", ZeroRecord(type)),
     Dest("*[]struct", <<>>), Dest("*map[int]string", <<>>), Dest("*int", Value("int", "0"))}

DestsOf == [type \in ModelTypes |-> Dests(type)]

\* what the driver does with a call: it succeeds, it returns an error, or
\* (Query) the rows end with an error
DriverOutcomes == {"ok", "err", "rows.Err"}

\* Query, the loop over rows.Next(): each row is scanned into a new record
\* that is appended to the slice; the first error ends the loop
RECURSIVE scanRows(_, _, _, _, _)
scanRows(type, fields, columns, rs, v) ==
    IF rs = <<>> THEN [err |-> "nil", v |-> v]
    ELSE LET r == scan(type, fields, columns, ZeroRecord(type), Head(rs))
         IN IF r.err # "nil" THEN [err |-> r.err, v |-> v]
            ELSE scanRows(type, fields, columns, Tail(rs), Append(v, r.rv))

\* (mutant) rows.Close() after the loop, not deferred: a row that fails to
\* scan returns before it
RowsCalls_CloseAtEnd(o, scanErr) ==
    IF o = "err" THEN <<"Query">>
    ELSE IF scanErr # "nil" THEN <<"Query">>
    ELSE <<"Query", "rows.Close">>

\* Query into a slice: the calls on the connection and on the cursor. When
\* connection.Query returns an error Query returns it; otherwise rows.Close
\* is deferred and runs when Query returns, however the loop ends
RowsCalls(o, scanErr) ==
    IF o = "err" THEN <<"Query">>
    ELSE <<"Query", "rows.Close">>

\* Find().Query(target)
Query(d, o) ==
    /\ qpc' = "Query"
    /\ dest' = d
    /\ IF connection = "nil"
       THEN qErr' = "ErrNoConnection" /\ filled' = d.val /\ UNCHANGED driverCalls
       ELSE IF d.kind = "nil"
       THEN qErr' = "panic" /\ filled' = d.val /\ UNCHANGED driverCalls
       ELSE IF d.kind \notin {"*struct", "*[]struct", "*map[int]string", "*int"}
       THEN qErr' = "ErrInvalidTarget" /\ filled' = d.val /\ UNCHANGED driverCalls
       ELSE IF d.kind = "*struct"
       THEN /\ driverCalls' = Append(driverCalls, "QueryRow")
            /\ IF o # "ok" THEN qErr' = "ErrDriver" /\ filled' = d.val
               ELSE IF rows = <<>> THEN qErr' = "ErrNoRows" /\ filled' = d.val
               ELSE LET r == scan(structType, modelFields, jsonbColumns, d.val, rows[1])
                    IN qErr' = r.err /\ filled' = r.rv
       ELSE IF d.kind # "*[]struct"
       THEN qErr' = "ErrInvalidTarget" /\ filled' = d.val /\ UNCHANGED driverCalls
       ELSE /\ driverCalls' = driverCalls \o
                    RowsCalls(o, scanRows(structType, modelFields, jsonbColumns, rows, d.val).err)
            /\ IF o = "err" THEN qErr' = "ErrDriver" /\ filled' = d.val
               ELSE LET r == scanRows(structType, modelFields, jsonbColumns, rows, d.val)
                    IN /\ filled' = r.v
                       /\ qErr' = IF r.err # "nil" THEN r.err
                                  ELSE IF o = "rows.Err" THEN "ErrRows" ELSE "nil"
    /\ UNCHANGED <<rows, modelVars, txVars, filterVars, stmtVars, recordVars>>

\* ExecTx(tx, ctx, dest...) with a handle the caller holds
ExecTx(d, o) ==
    /\ qpc' = "ExecTx"
    /\ dest' = d
    /\ IF connection = "nil"
       THEN qErr' = "ErrNoConnection" /\ filled' = d.val /\ UNCHANGED driverCalls
       ELSE /\ driverCalls' = Append(driverCalls, "ExecContext")
            /\ IF o # "ok" THEN qErr' = "ErrDriver" /\ filled' = d.val
               ELSE /\ qErr' = "nil"
                    /\ filled' = IF d.kind = "*int" THEN Value("int", ToString(Len(rows)))
                                 ELSE d.val
    /\ UNCHANGED <<rows, modelVars, txVars, filterVars, stmtVars, recordVars>>

\* Count(): Select("COUNT(*)").QueryRow(&count), execute with no options
ModelCount(o) ==
    /\ qpc' = "Count"
    /\ dest' = Dest("*int", Value("int", "0"))
    /\ IF connection = "nil"
       THEN qErr' = "ErrNoConnection" /\ filled' = Value("int", "0") /\ UNCHANGED driverCalls
       ELSE /\ driverCalls' = Append(driverCalls, "QueryRow")
            /\ IF o # "ok" THEN qErr' = "ErrDriver" /\ filled' = Value("int", "0")
               ELSE qErr' = "nil" /\ filled' = Value("int", ToString(Len(rows)))
    /\ UNCHANGED <<rows, modelVars, txVars, filterVars, stmtVars, recordVars>>

\* Exists(): Select("1 AS one").QueryRow(&ret), then the error is compared
\* with m.connection.ErrNoRows(), a call on the nil interface when no
\* connection is set
ModelExists(o) ==
    /\ qpc' = "Exists"
    /\ dest' = Dest("bool", FALSE)
    /\ IF connection = "nil"
       THEN qErr' = "panic" /\ filled' = FALSE /\ UNCHANGED driverCalls
       ELSE /\ driverCalls' = Append(driverCalls, "QueryRow")
            /\ IF o # "ok" THEN qErr' = "ErrDriver" /\ filled' = FALSE
               ELSE qErr' = "nil" /\ filled' = (rows # <<>>)
    /\ UNCHANGED <<rows, modelVars, txVars, filterVars, stmtVars, recordVars>>

\* the caller has taken the result
QueryDone ==
    /\ qpc # "none"
    /\ qpc' = "none" /\ dest' = NoDest /\ filled' = <<>>
    /\ driverCalls' = <<>> /\ qErr' = "nil"
    /\ UNCHANGED <<rows, modelVars, txVars, filterVars, stmtVars, recordVars>>

\* the table is emptied
Truncate ==
    /\ rows # <<>> /\ qpc = "none"
    /\ rows' = <<>>
    /\ lotsOfChanges' = <<>> /\ args' = <<>>
    /\ UNCHANGED <<stmt, qpc, dest, filled, driverCalls, qErr, modelVars, txVars, filterVars, recordVars>>

InitRecord ==
    /\ recOp = "none"
    /\ raw = EmptyChanges /\ outChanges = EmptyChanges
    /\ targetRec = EmptyChanges /\ prior = EmptyChanges
    /\ recErr = "nil"

InitQuery ==
    /\ qpc = "none"
    /\ dest = NoDest
    /\ filled = <<>>
    /\ rows = <<>>
    /\ driverCalls = <<>>
    /\ qErr = "nil"

InitStmt ==
    /\ lotsOfChanges = <<>>
    /\ args = <<>>
    /\ stmt = NoStmt

InitTx ==
    /\ pc = "idle"
    /\ action = actionExecute
    /\ txOpts = NilTxOptions
    /\ tx = 0
    /\ err = "nil"
    /\ panicValue = "none"
    /\ calls = <<>>
    /\ nCalls = 0

InitFilter ==
    /\ permitKind = "Permit"
    /\ permitArgs = <<>>
    /\ permittedFieldsIdx = <<>>
    /\ fpc = "idle"
    /\ input = NoInput
    /\ out = EmptyChanges

\* the model of one of the record types, nothing called yet
Init ==
    /\ \E type \in ModelTypes : NewModel(type)
    /\ InitTx
    /\ InitFilter
    /\ InitStmt
    /\ InitRecord
    /\ InitQuery

NextTx ==
    \/ SetConnection
    \/ \E act \in {actionQueryRow, actionExecute}, opts \in TxOptions : Execute(act, opts)
    \/ \E o \in Outcomes : Direct(o)
    \/ \E o \in Outcomes : BeginTx(o)
    \/ \E o \in Outcomes : RunBefore(o)
    \/ \E o \in Outcomes : RunMain(o)
    \/ \E o \in Outcomes : RunAfter(o)
    \/ \E o \in Outcomes : Deferred(o)

\* the transaction coordinator alone
SpecTx == Init /\ [][NextTx]_vars

NextFilter ==
    \/ \E names \in PermitNamesOf[structType] : Permit(names)
    \/ \E names \in PermitNamesOf[structType] : PermitAllExcept(names)
    \/ FilterCall
    \/ \E in \in InputsOf[structType] : FilterInput(in)
    \/ FilterNext
    \/ FilterReturn
    \/ FilterDone

\* the change-set builder on the model of admin
InitAdmin == NewModel("admin") /\ InitTx /\ InitFilter /\ InitStmt /\ InitRecord /\ InitQuery

SpecFilter == InitAdmin /\ [][NextFilter]_vars

NextStmt ==
    \/ Insert
    \/ Update
    \/ Discard

\* the statement builder on the model of order
InitOrder == NewModel("order") /\ InitTx /\ InitFilter /\ InitStmt /\ InitRecord /\ InitQuery

SpecStmt == InitOrder /\ [][NextStmt]_vars

NextRecord ==
    \/ recOp = "none" /\ permitArgs = <<>> /\
          \E in \in RawChangesOf[structType] : ChangesCall(in)
    \/ recOp = "none" /\ permitArgs = <<>> /\
          \E t \in TargetsOf[structType], lots \in LotsOf[structType] : Assign(t, lots)
    \/ recOp = "none" /\ \E names \in PermitNamesOf[structType] : Permit(names)
    \/ recOp = "none" /\ \E names \in PermitNamesOf[structType] : PermitAllExcept(names)
    \/ recOp = "none" /\
          \E b \in BindersOf[structType], t \in TargetsOf[structType] : Bind(b, t)
    \/ RecordDone

\* Changes, Assign and Bind on the model of either record type
SpecRecord == Init /\ [][NextRecord]_vars

NextQuery ==
    \/ qpc = "none" /\ stmt = NoStmt /\ SetConnection
    \/ qpc = "none" /\ rows = <<>> /\ Insert
    \/ Discard
    \/ qpc = "none" /\ Store
    \/ qpc = "none" /\ stmt = NoStmt /\ \E row \in RowsOf[structType] : Load(row)
    \/ Truncate
    \/ qpc = "none" /\ stmt = NoStmt /\
          \E d \in DestsOf[structType], o \in DriverOutcomes : Query(d, o)
    \/ qpc = "none" /\ stmt = NoStmt /\
          \E d \in {NoDest, Dest("*int", Value("int", "0"))}, o \in DriverOutcomes : ExecTx(d, o)
    \/ qpc = "none" /\ stmt = NoStmt /\ \E o \in DriverOutcomes : ModelCount(o)
    \/ qpc = "none" /\ stmt = NoStmt /\ \E o \in DriverOutcomes : ModelExists(o)
    \/ QueryDone

\* Insert, the table, and the operations that read it, on the model of any
\* of the record types
SpecQuery == Init /\ [][NextQuery]_vars

\* Query and the operations that read the table, on rows other writers put
NextCursor ==
    \/ qpc = "none" /\ SetConnection
    \/ qpc = "none" /\ \E row \in RowsOf[structType] : Load(row)
    \/ Truncate
    \/ qpc = "none" /\
          \E d \in DestsOf[structType], o \in DriverOutcomes : Query(d, o)
    \/ QueryDone

\* the same, on the model of order
SpecCursor == InitOrder /\ [][NextCursor]_vars

\* the change-set builders, Filter and Changes, on the model of account
NextHidden ==
    \/ recOp = "none" /\ NextFilter
    \/ recOp = "none" /\ fpc = "idle" /\ permitArgs = <<>> /\
          \E in \in RawChangesOf[structType] : ChangesCall(in)
    \/ RecordDone

InitAccount == NewModel("account") /\ InitTx /\ InitFilter /\ InitStmt /\ InitRecord /\ InitQuery

SpecHidden == InitAccount /\ [][NextHidden]_vars

NextSchema ==
    \/ stmt = NoStmt /\ \E a \in FindArgs : Find(a)
    \/ stmt = NoStmt /\ Schema
    \/ Discard

\* the model of any record type made from the pool
InitObject ==
    /\ \E o \in Objects2Model : NewModelOf(o)
    /\ InitTx /\ InitFilter /\ InitStmt /\ InitRecord /\ InitQuery

\* model inference, and the statements that list the model's columns
SpecSchema == InitObject /\ [][NextSchema]_vars

Next == NextTx \/ NextFilter \/ NextStmt \/ NextRecord \/ NextQuery \/ NextSchema

Spec == Init /\ [][Next]_vars

(***************************************************************************)
(* Reading the log of calls of the running execute.                        *)
(***************************************************************************)
Ops(c) == [i \in 1..Len(c) |-> c[i].op]

Count(c, opset) == Cardinality({i \in 1..Len(c) : c[i].op \in opset})

Called(c, op) == \E i \in 1..Len(c) : c[i].op = op

Returned(c, op, ret) == \E i \in 1..Len(c) : c[i].op = op /\ c[i].ret = ret

MainOps == {"ExecContext", "QueryRowContext"}

PhaseOps == {"Before"} \cup MainOps \cup {"After"}

PhaseErrors == {"ErrBefore", "ErrMain", "ErrAfter"}

BeginSucceeded == Returned(calls, "BeginTx", "nil")

\* Before (when set), the main statement and After (when set) all returned nil
AllPhasesCompleted ==
    /\ txOpts.Before => Returned(calls, "Before", "nil")
    /\ \E i \in 1..Len(calls) : calls[i].op \in MainOps /\ calls[i].ret = "nil"
    /\ txOpts.After => Returned(calls, "After", "nil")

\* C1: once BeginTx has succeeded, a returned execute has called exactly one
\* of Commit and Rollback, on the handle BeginTx gave, and Commit if and only
\* if Before, the main statement and After all completed without an error
\* and without a panic; before the deferred function runs neither is called.
C1_CommitXorRollback ==
    /\ (pc = "done" /\ BeginSucceeded) =>
          /\ Count(calls, {"Commit", "Rollback"}) = 1
          /\ \A i \in 1..Len(calls) :
                calls[i].op \in {"Commit", "Rollback"} => calls[i].h = tx /\ tx # 0
          /\ Called(calls, "Commit") <=> AllPhasesCompleted
          /\ Called(calls, "Rollback") <=> ~AllPhasesCompleted
    /\ pc \in {"begin", "before", "main", "after", "deferred"} =>
          Count(calls, {"Commit", "Rollback"}) = 0

\* C2: when Before, the main statement or After returned an error, a
\* returned execute has called Rollback after it and returns that error,
\* whatever Rollback returned.
C2_TriggeringErrorSurfaces ==
    pc = "done" =>
       \A i \in 1..Len(calls) :
          (calls[i].op \in PhaseOps /\ calls[i].ret \in PhaseErrors) =>
             /\ \E j \in (i+1)..Len(calls) : calls[j].op = "Rollback" /\ calls[j].h = tx
             /\ err = calls[i].ret

\* the main statement failed, Rollback failed too, the caller gets the
\* main statement's error
C2_Witness ==
    /\ pc = "done"
    /\ \E i \in 1..Len(calls) : calls[i].op \in MainOps /\ calls[i].ret = "ErrMain"
    /\ Returned(calls, "Rollback", "ErrRollback")
    /\ err = "ErrMain"

\* the calls of one transaction, in order, for options opts and action act
IsPrefix(s, t) == Len(s) <= Len(t) /\ \A i \in 1..Len(s) : s[i] = t[i]

PhaseOrder(act, opts) ==
    <<"BeginTx">> \o (IF opts.Before THEN <<"Before">> ELSE <<>>)
                  \o <<TxOp(act)>>
                  \o (IF opts.After THEN <<"After">> ELSE <<>>)

\* C3: in a transaction the calls are BeginTx, Before, the main statement,
\* After, in that order, one after the other has returned and all on the
\* handle BeginTx gave; after an error of Before neither the main statement
\* nor After runs, after an error of the main statement After does not run.
C3_PhasesInOrder ==
    ~NoTransaction(txOpts) =>
       LET phases == SelectSeq(calls, LAMBDA c : c.op \notin {"Commit", "Rollback"})
       IN /\ IsPrefix(Ops(phases), PhaseOrder(action, txOpts))
          /\ \A i \in 1..Len(calls) : calls[i].op # "BeginTx" => calls[i].h = tx /\ tx # 0
          /\ Returned(calls, "Before", "ErrBefore") =>
                Count(calls, MainOps \cup {"After"}) = 0
          /\ (\E i \in 1..Len(calls) : calls[i].op \in MainOps /\ calls[i].ret = "ErrMain") =>
                ~Called(calls, "After")

\* Before, the main statement and After all ran, in that order
C3_Witness ==
    /\ pc = "done"
    /\ Ops(calls) = <<"BeginTx", "Before", "ExecContext", "After", "Commit">>


(***************************************************************************)
(* Permit, PermitAllExcept and Filter: C8, C9, C10.                        *)
(***************************************************************************)
\* the fields the receiver permits
Permitted == {modelFields[permittedFieldsIdx[k]] : k \in 1..Len(permittedFieldsIdx)}

ArgNames == {permitArgs[k] : k \in 1..Len(permitArgs)}

StrictlyAscending(seq) == \A i, j \in 1..Len(seq) : i < j => seq[i] < seq[j]

\* C8: whatever inputs Filter has handled, of whatever shape, its change set
\* holds only fields of the receiver's permitted list.
C8_OnlyPermittedFields == DOMAIN out \subseteq Permitted

\* a struct and then a map, each naming a permitted field, an unpermitted
\* one or no field at all: only the permitted field is in the result
C8_Witness ==
    /\ fpc = "returned"
    /\ permitKind = "Permit" /\ permitArgs = <<"Name">>
    /\ input.kind = "struct"
    /\ DOMAIN input.obj = {"Name", "Password"}
    /\ {f.Name : f \in DOMAIN out} = {"Name"}

\* C9: Permit permits exactly the model fields named, PermitAllExcept exactly
\* those not named, each once, whatever unknown or repeated names are given;
\* with no known name Permit permits nothing, and Filter then returns an
\* empty change set on every input, and PermitAllExcept permits every field.
C9_UnknownAndRepeatedNamesIgnored ==
    /\ StrictlyAscending(permittedFieldsIdx)
    /\ permitKind = "Permit" =>
          Range(permittedFieldsIdx) =
             {i \in 1..Len(modelFields) : modelFields[i].Name \in ArgNames}
    /\ permitKind = "PermitAllExcept" =>
          Range(permittedFieldsIdx) =
             {i \in 1..Len(modelFields) : modelFields[i].Name \notin ArgNames}
    /\ (permitKind = "Permit" /\ ArgNames \cap Names(modelFields) = {}) =>
          permittedFieldsIdx = <<>> /\ out = EmptyChanges
    /\ (permitKind = "PermitAllExcept" /\ ArgNames \cap Names(modelFields) = {}) =>
          permittedFieldsIdx = Indexes(modelFields)

\* Permit("Id", "Id") permits Id once, and Filter keeps Id alone
C9_Witness ==
    /\ fpc = "returned"
    /\ permitKind = "Permit" /\ permitArgs = <<"Id", "Id">>
    /\ permittedFieldsIdx = <<1>>
    /\ input.kind = "RawChanges"
    /\ DOMAIN input.obj = {"Id", "Name"}
    /\ Cardinality(DOMAIN out) = 1

\* the value an input gives a field, and what it becomes in the field's type
GoType(f) == FieldByName(structType, f.Name).Type

Coerced(val, f) == Unmarshal(Marshal(val), GoType(f))

\* the inputs that are a key-value map or the JSON text of one
IsRawInput(in) ==
    \/ in.kind \in {"RawChanges", "map"}
    \/ in.kind \in {"string", "[]byte", "io.Reader"} /\ in.ok

\* the key under which an input holds the value of a field
KeyOf(in, f) == IF in.kind = "struct" THEN f.Name ELSE f.JsonName

Present == UNION {DOMAIN lotsOfChanges[k] : k \in 1..Len(lotsOfChanges)}

LastValue(F) ==
    LET ks == {k \in 1..Len(lotsOfChanges) : F \in DOMAIN lotsOfChanges[k]}
    IN lotsOfChanges[CHOOSE k \in ks : \A j \in ks : j <= k][F]

DirectFields == {F \in Present : F.Jsonb = ""}

DocColumns == {F.Jsonb : F \in Present \ DirectFields}

RoutedTo(c) == {F \in Present : F.Jsonb = c}

\* the JSON object of the last values of the fields routed to c, by column name
DocObject(c) ==
    [name \in {F.ColumnName : F \in RoutedTo(c)} |->
        LastValue(CHOOSE F \in RoutedTo(c) : F.ColumnName = name)]

\* the positions of a column in the column list of Insert, and of a column
\* in the SET clause of Update
InsertPositions(column) == {p \in 1..Len(stmt.fields) : stmt.fields[p] = column}

SetPositions(column) == {p \in 1..Len(stmt.fields) : stmt.fields[p].column = column}

\* the jsonb_set patches of an expression, innermost first, and what they are
\* applied to
RECURSIVE PatchesOf(_)
PatchesOf(e) ==
    IF e.op = "jsonb_set" THEN Append(PatchesOf(e.target), [path |-> e.path, n |-> e.n])
    ELSE <<>>

RECURSIVE BaseOf(_)
BaseOf(e) == IF e.op = "jsonb_set" THEN BaseOf(e.target) ELSE e

\* the placeholders of an expression, in the order of its text
RECURSIVE NumbersOf(_)
NumbersOf(e) ==
    CASE e.op = "param" -> <<e.n>>
      [] e.op = "COALESCE" -> <<>>
      [] e.op = "jsonb_set" -> Append(NumbersOf(e.target), e.n)

RECURSIVE SetNumbers(_)
SetNumbers(assignments) ==
    IF assignments = <<>> THEN <<>>
    ELSE NumbersOf(Head(assignments).expr) \o SetNumbers(Tail(assignments))

\* C4: in the statement of Insert and of Update, each field of the change
\* sets has its column (a jsonb-routed field, its key in the document) once,
\* bound to the value of the last change set that holds the field.
C4_LastWriteWins ==
    /\ stmt.op = "Insert" =>
          \A F \in Present :
             IF F.Jsonb = ""
             THEN /\ Cardinality(InsertPositions(F.ColumnName)) = 1
                  /\ \A p \in InsertPositions(F.ColumnName) :
                        stmt.values[stmt.numbers[p]] = LastValue(F)
             ELSE /\ Cardinality(InsertPositions(F.Jsonb)) = 1
                  /\ \A p \in InsertPositions(F.Jsonb) :
                        stmt.values[stmt.numbers[p]] = Value("string", MarshalMap(DocObject(F.Jsonb)))
    /\ stmt.op = "Update" =>
          \A F \in Present :
             IF F.Jsonb = ""
             THEN /\ Cardinality(SetPositions(F.ColumnName)) = 1
                  /\ \A p \in SetPositions(F.ColumnName) :
                        /\ stmt.fields[p].expr.op = "param"
                        /\ stmt.values[stmt.fields[p].expr.n] = LastValue(F)
             ELSE /\ Cardinality(SetPositions(F.Jsonb)) = 1
                  /\ \A p \in SetPositions(F.Jsonb) :
                        LET patches == PatchesOf(stmt.fields[p].expr)
                            mine == {i \in 1..Len(patches) : patches[i].path = F.ColumnName}
                        IN /\ Cardinality(mine) = 1
                           /\ \A i \in mine :
                                 stmt.values[patches[i].n] =
                                    Value("string", JSONText(Marshal(LastValue(F))))

\* Update of two change sets that both hold Status and FieldInJsonb's
\* document: status and the document key are there once, with the later value
C4_Witness ==
    /\ stmt.op = "Update"
    /\ Len(lotsOfChanges) = 2
    /\ \E F \in DOMAIN lotsOfChanges[1] \cap DOMAIN lotsOfChanges[2] :
          /\ F.Name = "FieldInJsonb"
          /\ lotsOfChanges[1][F] = Value("string", "a")
          /\ lotsOfChanges[2][F] = Value("string", "b")
    /\ \E G \in DOMAIN lotsOfChanges[1] : G.Name = "Status"
    /\ Len(stmt.fields) = 2
    /\ Len(stmt.values) = 2
    /\ \E n \in 1..2 : stmt.values[n] = Value("string", "\"b\"")

\* C5: the placeholders of Insert are $1..$n in the order of its n values;
\* the values of Update start with its k arguments, in order, and the
\* placeholders of its SET clause are $k+1..$k+m, in order, for the m values
\* that follow.
C5_ContiguousPlaceholders ==
    /\ stmt.op = "Insert" =>
          /\ Len(stmt.fields) = Len(stmt.numbers)
          /\ stmt.numbers = [n \in 1..Len(stmt.values) |-> n]
    /\ stmt.op = "Update" =>
          LET k == Len(ArgsOf(args))
          IN /\ Len(stmt.values) >= k
             /\ SubSeq(stmt.values, 1, k) = ArgsOf(args)
             /\ SetNumbers(stmt.fields) = [j \in 1..(Len(stmt.values) - k) |-> k + j]

\* Update with a where clause and one argument, of two change sets that both
\* hold Status, the first holding a jsonb-routed field as well: $1 is the
\* argument, $2 and $3 are the two of the SET clause
C5_Witness ==
    /\ stmt.op = "Update"
    /\ Len(ArgsOf(args)) = 1 /\ WhereOf(args) # ""
    /\ Len(lotsOfChanges) = 2
    /\ \E F \in DOMAIN lotsOfChanges[1] \cap DOMAIN lotsOfChanges[2] : F.Name = "Status"
    /\ \E F \in DOMAIN lotsOfChanges[1] : F.Jsonb = "meta"
    /\ Len(stmt.values) = 3
    /\ stmt.values[1] = args[2]
    /\ SetNumbers(stmt.fields) = <<2, 3>>

\* C6: Insert has one column and one placeholder for each jsonb column that
\* a field of the change sets is routed to, after the columns of the other
\* fields, bound to the JSON object that has, for each field routed to it,
\* the field's column name as key and the field's value.
C6_OneDocumentColumn ==
    stmt.op = "Insert" =>
       /\ Len(stmt.fields) = Cardinality(DirectFields) + Cardinality(DocColumns)
       /\ Len(stmt.numbers) = Len(stmt.fields)
       /\ \A c \in DocColumns :
             /\ Cardinality(InsertPositions(c)) = 1
             /\ \A p \in InsertPositions(c) :
                   /\ p > Cardinality(DirectFields)
                   /\ stmt.values[stmt.numbers[p]] = Value("string", MarshalMap(DocObject(c)))

\* Insert of a change set with two fields routed to meta, then one with
\* Status: the columns are status, meta, and meta is bound to an object of
\* two keys
C6_Witness ==
    /\ stmt.op = "Insert"
    /\ Len(lotsOfChanges) = 2
    /\ {F.Name : F \in DOMAIN lotsOfChanges[1]} = {"FieldInJsonb", "BadType"}
    /\ {F.Name : F \in DOMAIN lotsOfChanges[2]} = {"Status"}
    /\ stmt.fields = <<"status", "meta">>
    /\ stmt.values[2] = Value("string", "{\"bad_type\":1,\"field_in_jsonb\":\"a\"}")
    /\ stmt.sql = "INSERT INTO orders (status, meta) VALUES ($1, $2)"

\* a stored document: NULL, or an object of JSON texts by key
Doc(null, obj) == [null |-> null, obj |-> obj]

StoredDocs ==
    {Doc(TRUE, <<>>), Doc(FALSE, <<>>),
     Doc(FALSE, [k \in {"field_in_jsonb", "other"} |-> IF k = "other" THEN "7" ELSE "\"old\""]),
     Doc(FALSE, [k \in {"bad_type", "sources2"} |-> "0"])}

\* what the database makes of an expression over a jsonb column that holds
\* doc: COALESCE(column, '{}') is the document or the empty object, and
\* jsonb_set(target, '{key}', $n) is target with the key set to value n
RECURSIVE Evaluate(_, _, _)
Evaluate(e, doc, vals) ==
    IF e.op = "jsonb_set"
    THEN LET target == Evaluate(e.target, doc, vals)
         IN [k \in DOMAIN target \cup {e.path} |-> IF k = e.path THEN vals[e.n].v ELSE target[k]]
    ELSE IF doc.null THEN <<>> ELSE doc.obj

\* C7: Update assigns each jsonb column that a field of the change sets is
\* routed to once, a chain of jsonb_set over COALESCE(column, '{}'::jsonb)
\* with one patch and one placeholder for each such field; whatever document
\* is stored, the assignment sets the keys of those fields and leaves every
\* other key of the document as it is stored.
C7_DocumentPatched ==
    stmt.op = "Update" =>
       \A c \in DocColumns :
          /\ Cardinality(SetPositions(c)) = 1
          /\ \A p \in SetPositions(c) :
                LET e == stmt.fields[p].expr
                    patches == PatchesOf(e)
                    keys == {F.ColumnName : F \in RoutedTo(c)}
                IN /\ BaseOf(e) = Coalesce(c)
                   /\ Len(patches) = Cardinality(RoutedTo(c))
                   /\ {patches[i].path : i \in 1..Len(patches)} = keys
                   /\ Cardinality({patches[i].n : i \in 1..Len(patches)}) = Len(patches)
                   /\ \A doc \in StoredDocs :
                         LET new == Evaluate(e, doc, stmt.values)
                         IN /\ DOMAIN new = DOMAIN doc.obj \cup keys
                            /\ \A k \in DOMAIN doc.obj \ keys : new[k] = doc.obj[k]
                            /\ \A F \in RoutedTo(c) :
                                  new[F.ColumnName] = JSONText(Marshal(LastValue(F)))

\* Update of FieldInJsonb and BadType, both routed to meta: one assignment
\* of two patches; on the stored document {field_in_jsonb, other} it sets
\* field_in_jsonb and bad_type and keeps other
C7_Witness ==
    /\ stmt.op = "Update"
    /\ {F.Name : F \in Present} = {"FieldInJsonb", "BadType"}
    /\ Len(stmt.fields) = 1
    /\ stmt.fields[1].column = "meta"
    /\ Len(PatchesOf(stmt.fields[1].expr)) = 2
    /\ \E doc \in StoredDocs :
          LET new == Evaluate(stmt.fields[1].expr, doc, stmt.values)
          IN /\ DOMAIN doc.obj = {"field_in_jsonb", "other"}
             /\ DOMAIN new = {"field_in_jsonb", "bad_type", "other"}
             /\ new["other"] = doc.obj["other"]
             /\ new["field_in_jsonb"] # doc.obj["field_in_jsonb"]

(***************************************************************************)
(* Changes: C11.                                                           *)
(***************************************************************************)
\* the model fields whose JSON name is a key of the RawChanges given
Eligible == {f \in Range(modelFields) : f.JsonName \in DOMAIN raw}

FoundInserted ==
    /\ qpc = "Query" /\ dest.kind = "*struct"
    /\ connection # "nil" /\ qErr # "ErrDriver"
    /\ lotsOfChanges # <<>> /\ rows # <<>>

\* C12: after an Insert of change sets that give a document-routed field the
\* value V, a Find of the row into a record of the model's type succeeds and
\* yields V in that field, whatever the document columns of the model.
C12_RoundTrip ==
    FoundInserted =>
       \A F \in Present : F.Jsonb # "" => qErr = "nil" /\ filled[F.Name] = LastValue(F)

(***************************************************************************)
(* Query and scan: C13, C14, C15; no connection: C16.                      *)
(***************************************************************************)
\* Query has scanned the first row of the table into a record of the model
\* and the driver reported no error
ScannedRow ==
    /\ qpc = "Query" /\ dest.kind = "*struct"
    /\ connection # "nil" /\ qErr # "ErrDriver"
    /\ rows # <<>>

\* no two document-routed fields of the model have the same sub-key
SubKeysDistinct ==
    \A f, g \in Range(modelFields) :
       (f.Jsonb # "" /\ g.Jsonb # "" /\ f.ColumnName = g.ColumnName) => f = g

\* what the stored document of a field's column holds for the field
StoredFor(row, f) ==
    LET doc == jsonbRawScan(row.docs[f.Jsonb])
    IN IF f.ColumnName \notin DOMAIN doc THEN [ok |-> FALSE, val |-> Zero(GoType(f))]
       ELSE Unmarshal(Decode(doc[f.ColumnName]), GoType(f))

\* C13: when a row is scanned into a record of the model (here one whose
\* sub-keys are distinct, scanned into a zero record), the scan returns no
\* error; a document-routed field whose sub-key is missing or whose stored
\* value does not decode is zero, and every other field holds the row's value.
C13_UndecodableLeftZero ==
    (ScannedRow /\ SubKeysDistinct) =>
       /\ qErr = "nil"
       /\ \A f \in Range(modelFields) :
             filled[f.Name] =
                IF f.Jsonb = "" THEN rows[1].flat[f.ColumnName]
                ELSE IF StoredFor(rows[1], f).ok THEN StoredFor(rows[1], f).val
                ELSE Zero(GoType(f))

\* the plain columns of the model, in the order of its fields
PlainColumns ==
    LET plain == SelectSeq(modelFields, LAMBDA f : f.Jsonb = "")
    IN [i \in 1..Len(plain) |-> plain[i].ColumnName]

\* C14: Query into a pointer to a map between two scalar types succeeds, and
\* the map holds, for each value of the first column, the second column of
\* the last row that has it.
C14_QueryIntoMap ==
    (qpc = "Query" /\ dest.kind = "*map[int]string" /\ connection # "nil"
        /\ Len(PlainColumns) >= 2) =>
       /\ qErr \in {"nil", "ErrDriver"}
       /\ qErr = "nil" =>
             /\ DOMAIN filled = {rows[i].flat[PlainColumns[1]] : i \in 1..Len(rows)}
             /\ \A i \in 1..Len(rows) :
                   (\A j \in (i + 1)..Len(rows) :
                       rows[j].flat[PlainColumns[1]] # rows[i].flat[PlainColumns[1]]) =>
                      filled[rows[i].flat[PlainColumns[1]]] = rows[i].flat[PlainColumns[2]]

\* C15: Query on a model with a connection, given a destination that is not
\* a pointer (nil, or a record passed by value) or a pointer to an int,
\* returns ErrInvalidTarget, has made no call on the driver and has left the
\* destination as it was.
C15_InvalidTargetBeforeIO ==
    (qpc = "Query" /\ connection # "nil" /\ dest.kind \in {"nil", "struct", "*int"}) =>
       /\ qErr = "ErrInvalidTarget"
       /\ driverCalls = <<>>
       /\ filled = dest.val

\* C16: Query, ExecTx, Count and Exists on a model with no connection return
\* ErrNoConnection and make no call on the driver.
C16_NoConnection ==
    (qpc \in {"Query", "ExecTx", "Count", "Exists"} /\ connection = "nil") =>
       /\ qErr = "ErrNoConnection"
       /\ driverCalls = <<>>

(***************************************************************************)
(* execute without a transaction: C17.                                     *)
(***************************************************************************)
\* no options, or options with no isolation level and no hook
NothingRequested(opts) ==
    opts.isNil \/ (opts.IsolationLevel = "" /\ ~opts.Before /\ ~opts.After)

\* C17: when execute runs with no options, or with options that ask for no
\* isolation level and no hook, every call it makes is the statement call on
\* the connection itself (no BeginTx, Commit, Rollback, hook or call on a
\* handle), and once it has returned on a model with a connection it has
\* made exactly one.
C17_NoTransactionBypass ==
    NothingRequested(txOpts) =>
       /\ pc \in {"idle", "direct", "done"}
       /\ \A i \in 1..Len(calls) : calls[i].op = DirectOp(action) /\ calls[i].h = 0
       /\ tx = 0
       /\ (pc = "done" /\ err # "ErrNoConnection") => Len(calls) = 1
       /\ pc = "direct" => calls = <<>>

\* QueryRow with options that are not nil and ask for nothing: one QueryRow
\* on the connection
C17_Witness ==
    /\ pc = "done"
    /\ ~txOpts.isNil /\ NothingRequested(txOpts)
    /\ action = actionQueryRow
    /\ Ops(calls) = <<"QueryRow">>

(***************************************************************************)
(* Assign: C18.                                                            *)
(***************************************************************************)
\* a change set has a field of that name; the value the last change set
\* that has one gives it
HasName(c, n) == \E f \in DOMAIN c : f.Name = n

LastGiven(lots, n) ==
    LET k == CHOOSE k \in 1..Len(lots) :
                /\ HasName(lots[k], n)
                /\ \A l \in (k + 1)..Len(lots) : ~HasName(lots[l], n)
    IN lots[k][CHOOSE f \in DOMAIN lots[k] : f.Name = n]

\* C18: Assign on a pointer to a record returns no error and the change sets
\* it was given, in their order and unmodified; a field named in a change
\* set holds the value the last such change set gives it, and every other
\* field holds its prior value.
C18_AssignWritesAll ==
    (recOp = "Assign" /\ prior.kind = "*struct") =>
       /\ recErr = "nil"
       /\ outChanges = raw
       /\ \A n \in DOMAIN targetRec :
             targetRec[n] = IF \E k \in 1..Len(raw) : HasName(raw[k], n)
                            THEN LastGiven(raw, n)
                            ELSE prior.val[n]

(***************************************************************************)
(* Bind: C19.                                                              *)
(***************************************************************************)
\* C19: Bind on a pointer to a record, when the binder returns an error,
\* returns that error and leaves the record as it was; otherwise it returns
\* no error and a change set of exactly the permitted fields with the
\* binder's values, every permitted field of the record holds the binder's
\* value (zero when the binder did not set it) and every other field holds
\* its prior value, whatever the binder made of it.
C19_BindOnlyPermitted ==
    (recOp = "Bind" /\ prior.kind = "*struct") =>
       IF raw.err # "nil"
       THEN recErr = raw.err /\ targetRec = prior.val
       ELSE /\ recErr = "nil"
            /\ DOMAIN outChanges = Permitted
            /\ \A f \in Permitted : outChanges[f] = raw.val[f.Name]
            /\ \A n \in DOMAIN targetRec :
                  targetRec[n] = IF \E f \in Permitted : f.Name = n
                                 THEN raw.val[n]
                                 ELSE prior.val[n]

(***************************************************************************)
(* Filter over several inputs: C20.                                        *)
(***************************************************************************)
\* the usable value an input supplies for a field, if any: for a map or a
\* parsed JSON object the value of the field's JSON name, coerced to the
\* field's type; for a struct the value of its field of that name; nothing
\* for text that does not parse and for any other input
Supplied(in, f) ==
    IF IsRawInput(in) /\ f.JsonName \in DOMAIN in.obj THEN Coerced(in.obj[f.JsonName], f)
    ELSE IF in.kind = "struct" /\ f.Name \in DOMAIN in.obj
    THEN [ok |-> TRUE, val |-> in.obj[f.Name]]
    ELSE [ok |-> FALSE, val |-> Zero(GoType(f))]

\* C20: Filter starts from an empty change set; each input, in argument
\* order, sets the permitted fields for which it supplies a usable value and
\* leaves every other field as the earlier inputs left it, so a field ends
\* with the value of the last input that has a usable one; an input that
\* does not parse sets nothing and Filter goes on.
C20_LastUsableInputWins ==
    [][/\ (fpc \in {"idle", "returned"} /\ fpc' = "loop") => out' = EmptyChanges
       /\ fpc = "handled" => (out' = out /\ fpc' \in {"loop", "returned"})
       /\ (fpc = "loop" /\ fpc' = "handled") =>
             \A f \in Range(modelFields) :
                IF f \in Permitted /\ Supplied(input', f).ok
                THEN f \in DOMAIN out' /\ out'[f] = Supplied(input', f).val
                ELSE /\ f \in DOMAIN out' <=> f \in DOMAIN out
                     /\ f \in DOMAIN out => out'[f] = out[f]]_vars

\* Name is permitted, an earlier input has set it, and the input just
\* handled is bytes that do not parse: Name is still in the change set
C20_Witness ==
    /\ fpc = "handled"
    /\ permitKind = "Permit" /\ permitArgs = <<"Name">>
    /\ input.kind = "[]byte" /\ ~input.ok
    /\ {f.Name : f \in DOMAIN out} = {"Name"}

(***************************************************************************)
(* A field whose json tag is "-": C21.                                     *)
(***************************************************************************)
\* the change set holds no field whose JSON name is empty that `before` did
\* not hold with the same value
NoHiddenPut(before, after) ==
    \A f \in DOMAIN after :
       f.JsonName = "" => f \in DOMAIN before /\ after[f] = before[f]

\* C21: a field whose json tag is "-" is never put into a change set by
\* Filter, permitted or not, from a map, text, byte or stream input, nor by
\* Changes, whatever the keys of the input, the empty key included.
C21_HiddenNeverPut ==
    [][/\ (fpc' = "handled" /\ IsRawInput(input')) => NoHiddenPut(out, out')
       /\ recOp' = "Changes" => NoHiddenPut(EmptyChanges, outChanges')]_vars

(***************************************************************************)
(* The columns of the inferred model: C22.                                 *)
(***************************************************************************)
NoDuplicates(seq) == \A i, j \in 1..Len(seq) : i # j => seq[i] # seq[j]

\* the jsonb columns of the fields from the i-th on that are not in `seen`, each
\* once, in the order of the first field routed to it
RECURSIVE FirstSeen(_, _, _)
FirstSeen(fields, i, seen) ==
    IF i > Len(fields) THEN seen
    ELSE IF fields[i].Jsonb = "" \/ Contains(seen, fields[i].Jsonb)
    THEN FirstSeen(fields, i + 1, seen)
    ELSE FirstSeen(fields, i + 1, Append(seen, fields[i].Jsonb))

\* C22: whatever the record type, also when embedded members declare the same
\* field name or the same jsonb column as the parent or as each other, the
\* column list of Find and of Schema names no column twice: every flat column
\* once, then every jsonb column once, the jsonb columns in first-seen order.
C22_ColumnsOnce ==
    stmt.op \in {"Find", "Schema"} =>
       /\ NoDuplicates(stmt.fields)
       /\ Range(stmt.fields) =
             {f.ColumnName : f \in Range(FlatFields(modelFields))}
             \cup {f.Jsonb : f \in {g \in Range(modelFields) : g.Jsonb # ""}}
       /\ SubSeq(stmt.fields, Len(stmt.fields) - Len(FirstSeen(modelFields, 1, <<>>)) + 1,
                 Len(stmt.fields)) = FirstSeen(modelFields, 1, <<>>)

(***************************************************************************)
(* The table name: C23.                                                    *)
(***************************************************************************)
HasMethod == object.TableNameMethod # ""

HasTag == object.TableNameTag # ""

\* the pluralized column form of the names of the record types
PluralOf == [user |-> "users", product |-> "products"]

\* C23 as stated: with both a __TABLE_NAME__ tag and a TableName method the
\* table name is the tag; with the method alone, what it returns; with
\* neither, the pluralized column form of the type's name.
C23_AsStated ==
    /\ (HasTag /\ HasMethod) => tableName = object.TableNameTag
    /\ (HasMethod /\ ~HasTag) => tableName = object.TableNameMethod
    /\ (~HasMethod /\ ~HasTag /\ object.Name # "") => tableName = PluralOf[object.Name]

\* C23, amended: the table name of a record type that has a TableName method
\* is what the method returns, whether or not the type also carries a
\* __TABLE_NAME__ tag; with the tag alone it is the tag; with neither it is the
\* pluralized column form of the type's name, and "error_no_table_name" for
\* a type that has no name.
C23_MethodFirst ==
    /\ HasMethod => tableName = object.TableNameMethod
    /\ (~HasMethod /\ HasTag) => tableName = object.TableNameTag
    /\ (~HasMethod /\ ~HasTag /\ object.Name # "") => tableName = PluralOf[object.Name]
    /\ (~HasMethod /\ ~HasTag /\ object.Name = "") => tableName = "error_no_table_name"

\* product with the method and the tag: Find reads from different_products
C23_Witness ==
    /\ object.Name = "product"
    /\ object.TableNameMethod = "different_products"
    /\ object.TableNameTag = "custom_name"
    /\ tableName = "different_products"
    /\ stmt.op = "Find"

(***************************************************************************)
(* An isolation level and no hook: C24.                                    *)
(***************************************************************************)
\* the options ask for an isolation level and for no hook
IsolationLevelAlone(opts) ==
    ~opts.isNil /\ opts.IsolationLevel # "" /\ ~opts.Before /\ ~opts.After

\* C24: a call with an isolation level and no hook, on a model with a
\* connection, has when it returns begun a transaction; when BeginTx
\* succeeded the main statement ran on its handle, and the transaction was
\* committed if the statement succeeded and rolled back if it failed.
C24_IsolationLevelBeginsTx ==
    (pc = "done" /\ err # "ErrNoConnection" /\ IsolationLevelAlone(txOpts)) =>
       /\ Called(calls, "BeginTx")
       /\ BeginSucceeded =>
             /\ \E i \in 1..Len(calls) : calls[i].op \in MainOps /\ calls[i].h = tx
             /\ (\E i \in 1..Len(calls) : calls[i].op \in MainOps /\ calls[i].ret = "nil")
                   => Called(calls, "Commit")
             /\ (\E i \in 1..Len(calls) : calls[i].op \in MainOps /\ calls[i].ret # "nil")
                   => Called(calls, "Rollback")

(***************************************************************************)
(* What a transactional call reports: C25.                                 *)
(***************************************************************************)
\* C25: a call that ran in a transaction and returns a nil error has called
\* Commit, which returned nil, and has not called Rollback: after a Rollback,
\* also one that follows a panic of a hook or of the main statement, and
\* after a failed Commit, the call does not report success.
C25_SuccessOnlyAfterCommit ==
    (pc = "done" /\ ~NoTransaction(txOpts) /\ err = "nil" /\ panicValue = "none") =>
       /\ Returned(calls, "Commit", "nil")
       /\ ~Called(calls, "Rollback")

(***************************************************************************)
(* Values and placeholders: C27.                                           *)
(***************************************************************************)
\* the value the change sets give a column of its own, and the text they
\* give the key `path` of the document of jsonb column c
DirectValue(column) == LastValue(CHOOSE F \in DirectFields : F.ColumnName = column)

KeyValue(c, path) ==
    Value("string", JSONText(Marshal(LastValue(CHOOSE F \in RoutedTo(c) : F.ColumnName = path))))

\* C27: whatever the order the ranges over the change sets took, in the
\* statement of Insert the value at position k is the value of the column
\* whose placeholder is $k (for a jsonb column, its document); in the
\* statement of Update the arguments keep the first positions and the value
\* at position k is the value of the column, or of the document key, whose
\* placeholder is $k. Every position has one placeholder: a field given
\* twice moves no other value.
C27_ValueAtItsPlaceholder ==
    /\ stmt.op = "Insert" =>
          /\ {stmt.numbers[p] : p \in 1..Len(stmt.numbers)} = 1..Len(stmt.values)
          /\ \A p \in 1..Len(stmt.fields) :
                stmt.values[stmt.numbers[p]] =
                   IF stmt.fields[p] \in DocColumns
                   THEN Value("string", MarshalMap(DocObject(stmt.fields[p])))
                   ELSE DirectValue(stmt.fields[p])
    /\ stmt.op = "Update" =>
          LET k == Len(ArgsOf(args))
              numbers == SetNumbers(stmt.fields)
          IN /\ SubSeq(stmt.values, 1, k) = ArgsOf(args)
             /\ {numbers[p] : p \in 1..Len(numbers)} = (k + 1)..Len(stmt.values)
             /\ \A p \in 1..Len(stmt.fields) :
                   LET e == stmt.fields[p].expr
                       patches == PatchesOf(e)
                   IN IF e.op = "param"
                      THEN stmt.values[e.n] = DirectValue(stmt.fields[p].column)
                      ELSE \A i \in 1..Len(patches) :
                              stmt.values[patches[i].n] =
                                 KeyValue(stmt.fields[p].column, patches[i].path)

\* Update with a where clause and its argument, of a change set with Status
\* and UserId and a second one with Status again: the argument is still at
\* $1, and the two columns have the values at their own placeholders
C27_Witness ==
    /\ stmt.op = "Update"
    /\ Len(ArgsOf(args)) = 1 /\ WhereOf(args) # ""
    /\ Len(lotsOfChanges) = 2
    /\ {F.Name : F \in DOMAIN lotsOfChanges[1]} = {"Status", "UserId"}
    /\ {F.Name : F \in DOMAIN lotsOfChanges[2]} = {"Status"}
    /\ \E F \in DOMAIN lotsOfChanges[2] : lotsOfChanges[1][F] # lotsOfChanges[2][F]
    /\ Len(stmt.values) = 3
    /\ stmt.values[1] = ArgsOf(args)[1]
    /\ \E p \in 1..2 : /\ stmt.fields[p].column = "status"
                        /\ stmt.values[stmt.fields[p].expr.n] = DirectValue("status")

(***************************************************************************)
(* The same call, the same statement: C26.                                 *)
(***************************************************************************)
\* C26: the statement Insert or Update has returned is the one every call
\* with the same change sets, in the same order, and the same arguments
\* returns: the same text and the same list of values.
C26_Deterministic ==
    /\ stmt.op = "Insert" =>
          \A s \in InsertStatements(lotsOfChanges, args) :
             s.sql = stmt.sql /\ s.values = stmt.values
    /\ stmt.op = "Update" =>
          \A s \in UpdateStatements(lotsOfChanges, args) :
             s.sql = stmt.sql /\ s.values = stmt.values

(***************************************************************************)
(* scan with more than one jsonb column: C28.                              *)
(***************************************************************************)
\* the field's own jsonb column holds, in the row, a value for the field
HoldsOwn(row, f) ==
    /\ f.ColumnName \in DOMAIN jsonbRawScan(row.docs[f.Jsonb])
    /\ Decode(jsonbRawScan(row.docs[f.Jsonb])[f.ColumnName]).k # "null"

\* C28: when the model has more than one jsonb column and a row has been
\* scanned into a record with no error, a field routed to a jsonb column
\* holds what that column's document has for it, and when that document has
\* nothing for it the field is as it was before the scan, whatever the
\* documents of the other jsonb columns hold under the field's column name.
C28_OnlyFromOwnColumn ==
    (ScannedRow /\ qErr = "nil" /\ Len(jsonbColumns) > 1) =>
       \A f \in Range(modelFields) :
          f.Jsonb # "" =>
             filled[f.Name] = IF HoldsOwn(rows[1], f) THEN StoredFor(rows[1], f).val
                              ELSE dest.val[f.Name]

(***************************************************************************)
(* BeginTx fails: C29.                                                     *)
(***************************************************************************)
\* C29: when BeginTx has returned an error, execute has returned that error
\* and BeginTx is the only call it made: no Before, no main statement, no
\* After, no Commit and no Rollback.
C29_BeginErrorReturned ==
    Returned(calls, "BeginTx", "ErrBegin") =>
       /\ pc = "done"
       /\ err = "ErrBegin"
       /\ calls = <<Call("BeginTx", 0, "ErrBegin")>>
       /\ tx = 0

\* Execute with both hooks, BeginTx fails: the call is over with that error
C29_Witness ==
    /\ pc = "done"
    /\ txOpts.Before /\ txOpts.After
    /\ action = actionExecute
    /\ Ops(calls) = <<"BeginTx">>
    /\ err = "ErrBegin"

(***************************************************************************)
(* The cursor of Query into a slice: C30.                                  *)
(***************************************************************************)
\* the number of times an operation is among the driver calls
Times(op) == Cardinality({i \in 1..Len(driverCalls) : driverCalls[i] = op})

\* Query has been run into a pointer to a slice, on a model with a connection
QueriedSlice == qpc = "Query" /\ dest.kind = "*[]struct" /\ connection # "nil"

\* C30: when Query into a slice has returned, it has made one call of
\* connection.Query; when that call succeeded the cursor it opened has been
\* closed once, after it, whether the rows ended, a row failed to scan or the
\* cursor reported an error; when that call failed there is no cursor,
\* nothing is closed and the slice is as it was given.
C30_CursorClosedOnce ==
    QueriedSlice =>
       /\ qErr \in {"nil", "UnmarshalTypeError", "ErrRows", "ErrDriver"}
       /\ qErr # "ErrDriver" =>
             /\ driverCalls = <<"Query", "rows.Close">>
             /\ Times("rows.Close") = 1
       /\ qErr = "ErrDriver" =>
             /\ driverCalls = <<"Query">>
             /\ filled = dest.val

\* two rows, the second with a document that does not decode: Query returns
\* the error of scan, and the cursor is closed
C30_Witness ==
    /\ QueriedSlice
    /\ Len(rows) = 2
    /\ qErr = "UnmarshalTypeError"
    /\ Len(filled) = 1
    /\ driverCalls = <<"Query", "rows.Close">>

====
